---- MODULE Spec2Model ----
(***************************************************************************)
(* The Workspace controller of pgmac: the tab store, the startup session   *)
(* reconciliation (loadSession), the debounced session persister, the      *)
(* query pipeline (runQuery, handleSelectTable) and the connection         *)
(* registry (useAppStore).                                                 *)
(*                                                                         *)
(* React state is modelled as the component's state variables plus `view`, *)
(* the values captured by the closures of the last committed render.  A    *)
(* handler run from a user event reads `view`, applies its updates and is  *)
(* followed by a synchronous re-render.  An update made by the             *)
(* continuation of an awaited gateway call is batched: the state changes   *)
(* at once, the re-render (action render) follows later, and a user event  *)
(* arriving in between runs the handlers of the previous render.           *)
(***************************************************************************)
EXTENDS Naturals, Sequences, FiniteSets, TLC

\* ------------------------------------------------------------------ bounds

\* Tabs the user may add in one process lifetime (crypto.randomUUID ids).
MaxNewTabs == 2
\* Live handles the gateway issues in one process lifetime.
MaxHandles == 3
\* Gateway calls useAppStore awaits at one time.
MaxStoreCalls == 2
\* Gateway calls the Workspace awaits at one time (runQuery, handleSelectTable).
MaxCalls == 2
MaxEdits == 1

\* ------------------------------------------------------------------ values

Null == "null"

\* String(err)
ErrorText == "Error: gateway"

\* results: null, a tab without a QueryResult
\* modalData === null of the ResultsTable
NoModal == [row |-> <<>>, colIdx |-> 0]

NoResults == [query |-> Null, columns |-> <<>>, rows |-> <<>>]

Range(s) == {s[i] : i \in DOMAIN s}

\* The title of a fresh tab.
GenericTitle == "SQL Query"

\* The SQL text of the tab the component is constructed with.
DefaultSql == "SELECT * FROM information_schema.tables LIMIT 10;"

\* Saved connection identities the user has created.
SavedIds == {"s1", "s2"}

\* Ids of the tabs added by addTab, in the order they are issued.
NewTabIds == <<"u1", "u2", "u3", "u4">>

\* Handles connect_db issues in this process, in the order they are issued.
LiveIds == <<"h1", "h2", "h3", "h4", "h5">>

\* A handle issued by an earlier process: dead in this one.
DeadHandle == "h0"

\* ------------------------------------------------------------------ text

\* Strings are values of the state; the functions of the code that look
\* inside a string work on its sequence of characters.

C_DefaultSql ==
    <<"S", "E", "L", "E", "C", "T", " ", "*", " ", "F", "R", "O", "M", " ",
      "i", "n", "f", "o", "r", "m", "a", "t", "i", "o", "n", "_", "s", "c",
      "h", "e", "m", "a", ".", "t", "a", "b", "l", "e", "s", " ", "L", "I",
      "M", "I", "T", " ", "1", "0", ";">>

C_Select1 ==
    <<"S", "E", "L", "E", "C", "T", " ", "1">>

C_OrdersSql ==
    <<"S", "E", "L", "E", "C", "T", " ", "*", " ", "F", "R", "O", "M", " ",
      "p", "u", "b", "l", "i", "c", ".", "\"", "O", "r", "d", "e", "r", "s",
      "\"", " ", "L", "I", "M", "I", "T", " ", "1", "0", ";">>

C_Orders ==
    <<"O", "r", "d", "e", "r", "s">>

C_SelectEmail ==
    <<"S", "E", "L", "E", "C", "T", " ", "e", "m", "a", "i", "l", " ", "F",
      "R", "O", "M", " ", "p", "u", "b", "l", "i", "c", ".", "u", "s", "e",
      "r", "s", ";">>

C_JoinSql ==
    <<"s", "e", "l", "e", "c", "t", " ", "*", " ", "f", "r", "o", "m", " ",
      "a", " ", "j", "o", "i", "n", " ", "b", " ", "o", "n", " ", "a", ".",
      "i", "d", "=", "b", ".", "i", "d">>

C_UpdateSql ==
    <<"u", "p", "d", "a", "t", "e", " ", "t", " ", "s", "e", "t", " ", "x",
      "=", "1">>

C_SelectT ==
    <<"s", "e", "l", "e", "c", "t", " ", "*", " ", "f", "r", "o", "m", " ",
      "t">>

\* the names the FROM targets of those texts give
\* '  Select * FROM conf'
C_ConfSql ==
    <<" ", " ", "S", "e", "l", "e", "c", "t", " ", "*", " ", "F", "R", "O", "M",
      " ", "c", "o", "n", "f">>

C_conf == <<"c", "o", "n", "f">>
C_a == <<"a">>
C_t == <<"t">>

C_GenericTitle ==
    <<"S", "Q", "L", " ", "Q", "u", "e", "r", "y">>

C_SelectPrefix ==
    <<"S", "E", "L", "E", "C", "T", " ", "*", " ", "F", "R", "O", "M", " ">>

C_LimitSuffix ==
    <<" ", "L", "I", "M", "I", "T", " ", "1", "0", "0", ";">>

C_TablePrefix ==
    <<"T", "a", "b", "l", "e", ":", " ">>

RECURSIVE ToStr(_)
\* the string a sequence of characters spells
ToStr(cs) == IF cs = <<>> THEN "" ELSE Head(cs) \o ToStr(Tail(cs))

UpperLetters ==
    <<"A", "B", "C", "D", "E", "F", "G", "H", "I", "J", "K", "L", "M",
      "N", "O", "P", "Q", "R", "S", "T", "U", "V", "W", "X", "Y", "Z">>
LowerLetters ==
    <<"a", "b", "c", "d", "e", "f", "g", "h", "i", "j", "k", "l", "m",
      "n", "o", "p", "q", "r", "s", "t", "u", "v", "w", "x", "y", "z">>
Digits == {"0", "1", "2", "3", "4", "5", "6", "7", "8", "9"}

\* c.toLowerCase() of one character
toLowerCase(c) ==
    IF c \in Range(UpperLetters)
    THEN LowerLetters[CHOOSE i \in DOMAIN UpperLetters : UpperLetters[i] = c]
    ELSE c

\* \s
SpaceChars == {" ", "\t", "\n", "\r"}

IsSpace(c) == c \in SpaceChars

\* [a-zA-Z0-9_."]
TargetChars ==
    Range(UpperLetters) \cup Range(LowerLetters) \cup Digits \cup {"_", ".", "\""}

\* !queryToRun.trim()
IsBlank(cs) == \A i \in DOMAIN cs : IsSpace(cs[i])

\* str.startsWith(prefix)
startsWith(cs, prefix) ==
    /\ Len(cs) >= Len(prefix)
    /\ \A i \in DOMAIN prefix : cs[i] = prefix[i]

RECURSIVE RunEnd(_, _, _)
\* the last index of the longest run of characters of class that starts at
\* index i of cs (i - 1 when cs[i] is not of the class)
RunEnd(cs, i, class) ==
    IF i <= Len(cs) /\ cs[i] \in class THEN RunEnd(cs, i + 1, class) ELSE i - 1

\* /FROM\s+([a-zA-Z0-9_."]+)(?:\s|$|;)/i matched at index i: the range of
\* the captured group, or <<>> when the pattern does not match there
FromAt(cs, i) ==
    IF /\ i + 3 <= Len(cs)
       /\ <<toLowerCase(cs[i]), toLowerCase(cs[i+1]),
            toLowerCase(cs[i+2]), toLowerCase(cs[i+3])>> = <<"f", "r", "o", "m">>
    THEN LET ws == RunEnd(cs, i + 4, SpaceChars)
             e  == RunEnd(cs, ws + 1, TargetChars)
         IN IF /\ ws >= i + 4
               /\ e >= ws + 1
               /\ (e = Len(cs) \/ IsSpace(cs[e + 1]) \/ cs[e + 1] = ";")
            THEN <<ws + 1, e>>
            ELSE <<>>
    ELSE <<>>

\* queryToRun.match(...)[1]: the first place the pattern matches, <<>> if none
fromMatch(cs) ==
    LET hits == {i \in DOMAIN cs : FromAt(cs, i) # <<>>}
    IN IF hits = {} THEN <<>>
       ELSE LET i == CHOOSE h \in hits : \A g \in hits : h <= g
                r == FromAt(cs, i)
            IN SubSeq(cs, r[1], r[2])

RECURSIVE split(_, _)
\* raw.split(sep)
split(cs, sep) ==
    LET dots == {i \in DOMAIN cs : cs[i] = sep}
    IN IF dots = {} THEN <<cs>>
       ELSE LET d == CHOOSE i \in dots : \A j \in dots : i <= j
            IN <<SubSeq(cs, 1, d - 1)>> \o split(SubSeq(cs, d + 1, Len(cs)), sep)

\* s.replace(/["']/g, "")
stripQuotes(cs) == SelectSeq(cs, LAMBDA c : c \notin {"\"", "'"})

\* The table context runQuery infers from its SQL text: schema and table as
\* strings, table "" when none is inferred.
inferTable(cs) ==
    LET raw == fromMatch(cs)
        parts == IF raw = <<>> THEN <<>>
                 ELSE [i \in DOMAIN split(raw, ".") |-> stripQuotes(split(raw, ".")[i])]
    IN IF Len(parts) = 2
       THEN [schema |-> ToStr(parts[1]), table |-> ToStr(parts[2])]
       ELSE IF Len(parts) = 1
       THEN [schema |-> "public", table |-> ToStr(parts[1])]
       ELSE [schema |-> "public", table |-> ""]

ReservedWords ==
    {"select", "from", "where", "table", "order", "group", "by", "limit",
     "offset", "insert", "update", "delete", "create", "alter", "drop",
     "grant", "revoke", "all", "distinct", "as", "join", "on", "inner",
     "outer", "left", "right", "full", "union", "except", "intersect", "user"}

\* maybeQuoteIdentifier without its list of reserved words
maybeQuoteIdentifierNoReserved(name) ==
    LET needsQuotes ==
          \/ \E i \in DOMAIN name : name[i] \in Range(UpperLetters)
          \/ \E i \in DOMAIN name :
                name[i] \notin Range(LowerLetters) \cup Digits \cup {"_"}
          \/ (name # <<>> /\ name[1] \in Digits)
    IN IF needsQuotes THEN <<"\"">> \o name \o <<"\"">> ELSE name

maybeQuoteIdentifier(name) ==
    LET needsQuotes ==
          \/ \E i \in DOMAIN name : name[i] \in Range(UpperLetters)
          \/ \E i \in DOMAIN name :
                name[i] \notin Range(LowerLetters) \cup Digits \cup {"_"}
          \/ (name # <<>> /\ name[1] \in Digits)
          \/ ToStr([i \in DOMAIN name |-> toLowerCase(name[i])]) \in ReservedWords
    IN IF needsQuotes THEN <<"\"">> \o name \o <<"\"">> ELSE name

\* `SELECT * FROM ${qSchema}.${qTable} LIMIT 100;`
selectSql(schema, table) ==
    C_SelectPrefix \o maybeQuoteIdentifier(schema) \o <<".">>
        \o maybeQuoteIdentifier(table) \o C_LimitSuffix

RECURSIVE trimStart(_)
trimStart(cs) ==
    IF cs # <<>> /\ IsSpace(Head(cs)) THEN trimStart(Tail(cs)) ELSE cs

RECURSIVE trimEnd(_)
trimEnd(cs) ==
    IF cs # <<>> /\ IsSpace(cs[Len(cs)])
    THEN trimEnd(SubSeq(cs, 1, Len(cs) - 1)) ELSE cs

\* str.trim()
trim(cs) == trimEnd(trimStart(cs))

\* \w
WordChars == Range(UpperLetters) \cup Range(LowerLetters) \cup Digits \cup {"_"}

\* activeTab.sql.trim().toLowerCase().startsWith("select")
isSelect(cs) ==
    startsWith([i \in DOMAIN trim(cs) |-> toLowerCase(trim(cs)[i])],
               <<"s", "e", "l", "e", "c", "t">>)

\* /\bON\b/i.test(activeTab.sql)
hasOnKeyword(cs) ==
    \E i \in DOMAIN cs :
        /\ i + 1 <= Len(cs)
        /\ toLowerCase(cs[i]) = "o"
        /\ toLowerCase(cs[i + 1]) = "n"
        /\ (i = 1 \/ cs[i - 1] \notin WordChars)
        /\ (i + 1 = Len(cs) \/ cs[i + 2] \notin WordChars)

canEdit(cs) == isSelect(cs) /\ ~hasOnKeyword(cs)

\* ------------------------------------------------------------------ state

VARIABLES
    tabs,                    \* useState<WorkspaceTab[]>
    activeTabId,             \* useState<string>
    isSessionLoaded,         \* useState(false)
    activeConnectionId,      \* useState<string | null>
    activeSavedConnectionId, \* useState<string | null>
    view,                    \* what the closures of the last render captured
    renderPending,           \* a batched update waits for its re-render
    timer,                   \* the auto-save effect's setTimeout is pending
    recon,                   \* loadSession: its position and locals
    session,                 \* gateway: the stored SessionSnapshot
    savedConnections,        \* gateway: the stored SavedConnection list
    nextHandle,              \* gateway: handles issued so far
    nextTabId,               \* number of ids drawn from crypto.randomUUID
    globalConnectionId,      \* useAppStore.activeConnectionId
    connections,             \* useAppStore.connections
    connOps,                 \* useAppStore: the awaited gateway calls
    ops,                     \* Workspace: the awaited gateway calls
    deleteConfirm,           \* useState<{ sql, isOpen }>
    isDeleting,              \* useState(false)
    errorModal,              \* useState<{ isOpen, error, sql }>
    alertShown,              \* the message of the last alert()
    modalData                \* ResultsTable: useState<{ value, row, colIdx } | null>

vars == <<tabs, activeTabId, isSessionLoaded, activeConnectionId,
          activeSavedConnectionId, view, renderPending, timer, recon,
          session, savedConnections, deleteConfirm, isDeleting, alertShown, errorModal, ops, connections, connOps, nextHandle, nextTabId, modalData,
          globalConnectionId>>

\* ------------------------------------------------------------------ helpers

\* a nullable list: null, or the list
NoList == <<>>
List(l) == <<l>>

StoreCall(kind, savedId, nodeIndex, pc) ==
    [kind |-> kind, savedId |-> savedId, nodeIndex |-> nodeIndex, pc |-> pc,
     liveId |-> Null, schemaIndex |-> 0]

TabIds(ts) == {ts[i].id : i \in DOMAIN ts}

\* tabs.find((t) => t.id === id) || tabs[0]
activeTab(ts, id) ==
    IF id \in TabIds(ts)
    THEN ts[CHOOSE i \in DOMAIN ts : ts[i].id = id /\ \A j \in 1..(i-1) : ts[j].id # id]
    ELSE ts[1]

\* The component tree is mounted: the Sidebar renders conn.data.id of every
\* node, so a node without data throws in render and React unmounts the tree.
Mounted == \A i \in DOMAIN connections : connections[i].id # Null

\* { ...t, ...updates }
Merge(t, updates) ==
    [f \in DOMAIN t |-> IF f \in DOMAIN updates THEN updates[f] ELSE t[f]]

\* prev.map((t) => (t.id === id ? { ...t, ...updates } : t))
updateActiveTab(ts, id, updates) ==
    [i \in DOMAIN ts |-> IF ts[i].id = id THEN Merge(ts[i], updates) ELSE ts[i]]

NewTab(id, conn, saved, sql) ==
    [id |-> id, connectionId |-> conn, savedConnectionId |-> saved,
     title |-> GenericTitle, sql |-> sql, results |-> NoResults, error |-> Null,
     isLoading |-> FALSE, selectedTable |-> Null, columnDefs |-> <<>>]

CurrentView ==
    [tabs |-> tabs, activeTabId |-> activeTabId,
     activeConnectionId |-> activeConnectionId,
     activeSavedConnectionId |-> activeSavedConnectionId,
     isSessionLoaded |-> isSessionLoaded, deleteConfirm |-> deleteConfirm,
     isDeleting |-> isDeleting, errorModal |-> errorModal]

\* the dependency list of the auto-save effect, as a render captured it
saveDeps(v) ==
    <<v.tabs, v.activeTabId, v.isSessionLoaded, v.activeConnectionId,
      v.activeSavedConnectionId>>

\* ------------------------------------------------------------------ snapshots

PersistedTab(id, title, sql, conn, saved) ==
    [id |-> id, title |-> title, sql |-> sql, connection_id |-> conn,
     saved_connection_id |-> saved]

Snapshot(lastConn, lastSaved, lastQuery, ts, active) ==
    [last_connection_id |-> lastConn, last_saved_connection_id |-> lastSaved,
     last_query |-> lastQuery, tabs |-> ts, active_tab_id |-> active]

\* What load_session can return at startup: the snapshots an earlier process
\* left behind.  Every connection_id in them is a handle of that process.
InitialSessions ==
    { Snapshot(Null, Null, Null, <<>>, Null),
      Snapshot(Null, Null, "SELECT 1", <<>>, Null),
      Snapshot(DeadHandle, "s1", Null,
               <<PersistedTab("1", "public.users", "SELECT * FROM public.users LIMIT 100;",
                              DeadHandle, "s1")>>, "1"),
      Snapshot(DeadHandle, "s1", Null,
               <<PersistedTab("1", GenericTitle, "SELECT 1", DeadHandle, Null),
                 PersistedTab("p2", "public.users", "SELECT * FROM public.users LIMIT 100;",
                              DeadHandle, "s2")>>, "p2") }

\* Snapshots with a tab that has no saved_connection_id, with and without a
\* stored connection_id, next to a tab that has one; with an active_tab_id
\* that is null, that names a tab, and that names no tab of the snapshot.
LegacySessions ==
    { Snapshot(Null, "s1", Null,
               <<PersistedTab("1", GenericTitle, "SELECT 1", Null, Null)>>, Null),
      Snapshot(DeadHandle, "s1", Null,
               <<PersistedTab("1", GenericTitle, "SELECT 1", DeadHandle, Null),
                 PersistedTab("p2", GenericTitle, "SELECT 1", Null, Null)>>, "p2"),
      Snapshot(DeadHandle, Null, Null,
               <<PersistedTab("1", "public.users", "SELECT * FROM public.users LIMIT 100;",
                              DeadHandle, "s2"),
                 PersistedTab("p2", GenericTitle, "SELECT 1", DeadHandle, Null)>>, "p9"),
      Snapshot(DeadHandle, "s1", Null,
               <<PersistedTab("1", GenericTitle, "SELECT 1", DeadHandle, Null),
                 PersistedTab("p2", "public.users", "SELECT * FROM public.users LIMIT 100;",
                              DeadHandle, "s2")>>, "p2") }

\* persistSession's payload
persistSession(currentTabs, activeId, currentActiveConnId, globalSavedConnId) ==
    Snapshot(currentActiveConnId, globalSavedConnId, Null,
             [i \in DOMAIN currentTabs |->
                PersistedTab(currentTabs[i].id, currentTabs[i].title,
                             currentTabs[i].sql, currentTabs[i].connectionId,
                             currentTabs[i].savedConnectionId)],
             activeId)

\* ------------------------------------------------------------------ Init

\* The state after the first render of the Workspace, the Sidebar's
\* loadConnections and loadSession started, load_session about to answer
\* with one of `sessions`.
InitFrom(sessions) ==
    /\ tabs = <<NewTab("1", Null, Null, DefaultSql)>>
    /\ activeTabId = "1"
    /\ isSessionLoaded = FALSE
    /\ activeConnectionId = Null
    /\ activeSavedConnectionId = Null
    /\ view = [tabs |-> tabs, activeTabId |-> "1", activeConnectionId |-> Null,
               activeSavedConnectionId |-> Null, isSessionLoaded |-> FALSE,
               deleteConfirm |-> [sql |-> "", isOpen |-> FALSE],
               isDeleting |-> FALSE,
               errorModal |-> [isOpen |-> FALSE, error |-> Null, sql |-> ""]]
    /\ renderPending = FALSE
    /\ timer = FALSE
    /\ recon = [pc |-> "load_session"]
    /\ session \in sessions
    /\ savedConnections \in {<<"s1", "s2">>, <<"s2">>}
    /\ nextHandle = 0
    /\ nextTabId = 0
    /\ globalConnectionId = Null
    /\ connections = <<>>
    /\ connOps = <<StoreCall("load", Null, 0, "load_connections")>>
    /\ ops = <<>>
    /\ deleteConfirm = [sql |-> "", isOpen |-> FALSE]
    /\ isDeleting = FALSE
    /\ errorModal = [isOpen |-> FALSE, error |-> Null, sql |-> ""]
    /\ alertShown = Null
    /\ modalData = NoModal

Init == InitFrom(InitialSessions)

\* ------------------------------------------------------------------ rendering

\* The re-render that follows a handler run from a user event, and the
\* auto-save effect of that render: when a dependency changed, the effect's
\* cleanup clears the pending timer and, once the session is loaded, a new
\* one is set.
Commit ==
    /\ Mounted
    /\ view' = [tabs |-> tabs', activeTabId |-> activeTabId',
                activeConnectionId |-> activeConnectionId',
                activeSavedConnectionId |-> activeSavedConnectionId',
                isSessionLoaded |-> isSessionLoaded',
                deleteConfirm |-> deleteConfirm',
                isDeleting |-> isDeleting', errorModal |-> errorModal']
    /\ renderPending' = FALSE
    /\ timer' = IF saveDeps(view') # saveDeps(view) THEN isSessionLoaded'
                ELSE timer

\* The re-render of a batched update.
render ==
    /\ renderPending
    /\ Mounted
    /\ view' = CurrentView
    /\ renderPending' = FALSE
    /\ timer' = IF saveDeps(CurrentView) # saveDeps(view) THEN isSessionLoaded
                ELSE timer
    /\ UNCHANGED <<tabs, activeTabId, isSessionLoaded, activeConnectionId,
                   activeSavedConnectionId, recon, session, savedConnections, deleteConfirm, isDeleting, alertShown, errorModal, ops, connections, connOps,
                   nextHandle, nextTabId, modalData, globalConnectionId>>

\* ------------------------------------------------------------------ tab store

addTab ==
    /\ nextTabId < MaxNewTabs
    /\ LET newId == NewTabIds[nextTabId + 1]
           newTab == NewTab(newId, view.activeConnectionId,
                            view.activeSavedConnectionId, "")
       IN /\ tabs' = Append(tabs, newTab)
          /\ activeTabId' = newId
    /\ nextTabId' = nextTabId + 1
    /\ UNCHANGED <<isSessionLoaded, activeConnectionId, activeSavedConnectionId,
                   recon, session, savedConnections, deleteConfirm, isDeleting, alertShown, errorModal, ops, connections, connOps, nextHandle, globalConnectionId,
                   modalData>>
    /\ Commit

\* closeTab without `if (tabs.length === 1) return;`: closing the last tab
\* empties the list, and newTabs[newTabs.length - 1].id throws after
\* setTabs(newTabs) was called
closeTabUnguarded(id) ==
    LET newTabs == SelectSeq(view.tabs, LAMBDA t : t.id # id)
    IN /\ tabs' = newTabs
       /\ activeTabId' = IF view.activeTabId = id /\ newTabs # <<>>
                         THEN newTabs[Len(newTabs)].id
                         ELSE activeTabId
       /\ UNCHANGED <<isSessionLoaded, activeConnectionId,
                      activeSavedConnectionId, recon, session,
                      savedConnections, deleteConfirm, isDeleting, alertShown, errorModal, ops, connections, connOps, nextHandle, nextTabId, modalData,
                      globalConnectionId>>
       /\ Commit

closeTabBody(id) ==
    IF Len(view.tabs) = 1
    THEN UNCHANGED vars
    ELSE LET newTabs == SelectSeq(view.tabs, LAMBDA t : t.id # id)
         IN /\ tabs' = newTabs
            /\ activeTabId' = IF view.activeTabId = id
                              THEN newTabs[Len(newTabs)].id
                              ELSE activeTabId
            /\ UNCHANGED <<isSessionLoaded, activeConnectionId,
                           activeSavedConnectionId, recon, session,
                           savedConnections, deleteConfirm, isDeleting, alertShown, errorModal, ops, connections, connOps, nextHandle, nextTabId, modalData,
                           globalConnectionId>>
            /\ Commit

closeTab(id) ==
    /\ id \in TabIds(view.tabs)
    /\ closeTabBody(id)

\* onClick={() => setActiveTabId(tab.id)} of a rendered tab
selectTab(id) ==
    /\ id \in TabIds(view.tabs)
    /\ id # activeTabId
    /\ activeTabId' = id
    /\ tabs' = tabs
    /\ UNCHANGED <<isSessionLoaded, activeConnectionId, activeSavedConnectionId,
                   recon, session, savedConnections, deleteConfirm, isDeleting, alertShown, errorModal, ops, connections, connOps, nextHandle, nextTabId, modalData,
                   globalConnectionId>>
    /\ Commit

\* ------------------------------------------------------------------ persister

\* The timer of the auto-save effect fires: persistSession with the values
\* of the render that set it, and save_session stores the snapshot.
autoSave ==
    /\ timer
    /\ Mounted
    /\ timer' = FALSE
    /\ session' = persistSession(view.tabs, view.activeTabId,
                                 view.activeConnectionId,
                                 view.activeSavedConnectionId)
    /\ UNCHANGED <<tabs, activeTabId, isSessionLoaded, activeConnectionId,
                   activeSavedConnectionId, view, renderPending, recon,
                   savedConnections, deleteConfirm, isDeleting, alertShown, errorModal, ops, connections, connOps, nextHandle, nextTabId, modalData, globalConnectionId>>

\* ------------------------------------------------------------------ loadSession

RECURSIVE AddAll(_, _)
\* neededSavedIds.add(...) for each element of ids, in order (a Set keeps
\* insertion order and ignores a repeated id)
AddAll(needed, ids) ==
    IF ids = <<>> THEN needed
    ELSE AddAll(IF Head(ids) = Null \/ Head(ids) \in Range(needed)
                THEN needed ELSE Append(needed, Head(ids)),
                Tail(ids))

\* neededSavedIds kept in an array: a repeated id is kept
neededSavedIdsRepeated(s) ==
    SelectSeq(<<s.last_saved_connection_id>>
              \o [i \in DOMAIN s.tabs |-> s.tabs[i].saved_connection_id],
              LAMBDA id : id # Null)

neededSavedIds(s) ==
    AddAll(<<>>, <<s.last_saved_connection_id>>
                 \o [i \in DOMAIN s.tabs |-> s.tabs[i].saved_connection_id])

RECURSIVE SkipMissing(_, _)
\* the loop passes over a saved id with no SavedConnection without awaiting
SkipMissing(needed, savedConns) ==
    IF needed = <<>> THEN <<>>
    ELSE IF Head(needed) \in Range(savedConns) THEN needed
    ELSE SkipMissing(Tail(needed), savedConns)

\* restoreTab trusting the handle stored in the snapshot
restoreTabStored(t, s, savedToLiveMap) ==
    [id |-> t.id, connectionId |-> t.connection_id,
     savedConnectionId |-> t.saved_connection_id,
     title |-> t.title, sql |-> t.sql, results |-> NoResults, error |-> Null,
     isLoading |-> FALSE, selectedTable |-> Null, columnDefs |-> <<>>]

\* "4. Restore tabs": one persisted tab
restoreTab(t, s, savedToLiveMap) ==
    LET liveId ==
          IF t.saved_connection_id # Null /\ t.saved_connection_id \in DOMAIN savedToLiveMap
          THEN savedToLiveMap[t.saved_connection_id]
          ELSE IF t.saved_connection_id = Null /\ t.connection_id # Null
                  /\ s.last_saved_connection_id # Null
                  /\ s.last_saved_connection_id \in DOMAIN savedToLiveMap
          THEN savedToLiveMap[s.last_saved_connection_id]
          ELSE t.connection_id
    IN [id |-> t.id, connectionId |-> liveId,
        savedConnectionId |-> t.saved_connection_id,
        title |-> t.title, sql |-> t.sql, results |-> NoResults, error |-> Null,
        isLoading |-> FALSE, selectedTable |-> Null, columnDefs |-> <<>>]

restoredTabs(s, savedToLiveMap) ==
    [i \in DOMAIN s.tabs |-> restoreTab(s.tabs[i], s, savedToLiveMap)]

\* the active tab taken from the snapshot unchecked
restoredActiveTabIdStored(s) == s.active_tab_id

restoredActiveTabId(s) ==
    IF s.active_tab_id # Null /\ s.active_tab_id \in TabIds(s.tabs)
    THEN s.active_tab_id
    ELSE s.tabs[1].id

\* "5. Restore active connection" falling back on the handle the snapshot
\* stored
restoredGlobalStored(s, savedToLiveMap) ==
    IF s.last_saved_connection_id # Null
       /\ s.last_saved_connection_id \in DOMAIN savedToLiveMap
    THEN [live |-> savedToLiveMap[s.last_saved_connection_id],
          saved |-> s.last_saved_connection_id]
    ELSE [live |-> s.last_connection_id, saved |-> s.last_saved_connection_id]

\* "5. Restore active connection": the handle it selects, or Null
restoredGlobal(s, savedToLiveMap) ==
    IF s.last_saved_connection_id # Null
       /\ s.last_saved_connection_id \in DOMAIN savedToLiveMap
    THEN [live |-> savedToLiveMap[s.last_saved_connection_id],
          saved |-> s.last_saved_connection_id]
    ELSE IF s.tabs = <<>> THEN [live |-> Null, saved |-> Null]
    ELSE LET t == activeTab(s.tabs, s.active_tab_id)
         IN IF t.saved_connection_id # Null
               /\ t.saved_connection_id \in DOMAIN savedToLiveMap
            THEN [live |-> savedToLiveMap[t.saved_connection_id],
                  saved |-> t.saved_connection_id]
            ELSE [live |-> Null, saved |-> Null]

\* Steps 4 and 5 and the finally block: the rest of loadSession once the
\* connect loop is over, run without a further await.  The closure is the
\* one of the first render: updateActiveTab addresses tab "1".
finishLoad(s, savedToLiveMap, log) ==
    LET g == restoredGlobal(s, savedToLiveMap)
    IN /\ tabs' = IF Len(s.tabs) > 0 THEN restoredTabs(s, savedToLiveMap)
                  ELSE IF s.last_query # Null
                       THEN updateActiveTab(tabs, "1", [sql |-> s.last_query])
                       ELSE tabs
       /\ activeTabId' = IF Len(s.tabs) > 0 THEN restoredActiveTabId(s)
                         ELSE activeTabId
       /\ activeSavedConnectionId' =
            IF g.live # Null THEN g.saved ELSE activeSavedConnectionId
       /\ globalConnectionId' =
            IF g.live # Null THEN g.live ELSE globalConnectionId
       /\ activeConnectionId' =
            IF g.live # Null THEN g.live ELSE activeConnectionId
       /\ isSessionLoaded' = TRUE
       /\ renderPending' = TRUE
       /\ recon' = [pc |-> "done", session |-> s, savedToLiveMap |-> savedToLiveMap,
                     log |-> log]

\* what the loop leaves outside the store: the saved ids it called
\* connect_db for, and the ids of its console.error lines
NoLog == [attempted |-> <<>>, failed |-> <<>>]

\* the for loop from the saved id it is at: await connect_db, or finish
continueLoad(s, savedConns, needed, savedToLiveMap, log) ==
    LET rest == SkipMissing(needed, savedConns)
    IN IF rest = <<>>
       THEN finishLoad(s, savedToLiveMap, log)
       ELSE /\ recon' = [pc |-> "connect_db", session |-> s,
                         savedConns |-> savedConns, needed |-> rest,
                         savedToLiveMap |-> savedToLiveMap,
                         log |-> [log EXCEPT !.attempted = Append(@, Head(rest))]]
            /\ UNCHANGED <<tabs, activeTabId, isSessionLoaded,
                           activeConnectionId, activeSavedConnectionId,
                           renderPending, globalConnectionId>>

\* catch (e) { ...; return; } finally { setIsSessionLoaded(true); }
failLoad ==
    /\ recon' = [pc |-> "failed"]
    /\ isSessionLoaded' = TRUE
    /\ renderPending' = TRUE
    /\ alertShown' = "Failed to load session: " \o ErrorText
    /\ UNCHANGED <<tabs, activeTabId, activeConnectionId,
                   activeSavedConnectionId, globalConnectionId>>

loadSessionResolved ==
    /\ recon.pc = "load_session"
    /\ recon' = [pc |-> "load_connections", session |-> session]
    /\ UNCHANGED <<tabs, activeTabId, isSessionLoaded, activeConnectionId,
                   activeSavedConnectionId, view, renderPending, timer,
                   session, savedConnections, deleteConfirm, isDeleting, alertShown, errorModal, ops, connections, connOps, nextHandle, nextTabId, modalData,
                   globalConnectionId>>

loadSessionRejected ==
    /\ recon.pc = "load_session"
    /\ failLoad
    /\ UNCHANGED <<view, timer, session, savedConnections, deleteConfirm, isDeleting, errorModal, ops, connections, connOps, nextHandle, nextTabId, modalData>>

loadConnectionsResolved ==
    /\ recon.pc = "load_connections"
    /\ continueLoad(recon.session, savedConnections,
                    neededSavedIds(recon.session), <<>>, NoLog)
    /\ UNCHANGED <<view, timer, session, savedConnections, deleteConfirm, isDeleting, alertShown, errorModal, ops, connections, connOps, nextHandle, nextTabId, modalData>>

loadConnectionsRejected ==
    /\ recon.pc = "load_connections"
    /\ failLoad
    /\ UNCHANGED <<view, timer, session, savedConnections, deleteConfirm, isDeleting, errorModal, ops, connections, connOps, nextHandle, nextTabId, modalData>>

connectDbResolved ==
    /\ recon.pc = "connect_db"
    /\ nextHandle < MaxHandles
    /\ nextHandle' = nextHandle + 1
    /\ continueLoad(recon.session, recon.savedConns, Tail(recon.needed),
                    (Head(recon.needed) :> LiveIds[nextHandle + 1])
                        @@ recon.savedToLiveMap,
                    recon.log)
    /\ UNCHANGED <<view, timer, session, savedConnections, deleteConfirm, isDeleting, alertShown, errorModal, ops, connections, connOps, nextTabId, modalData>>

connectDbRejected ==
    /\ recon.pc = "connect_db"
    /\ continueLoad(recon.session, recon.savedConns, Tail(recon.needed),
                    recon.savedToLiveMap,
                    [recon.log EXCEPT !.failed = Append(@, Head(recon.needed))])
    /\ UNCHANGED <<view, timer, session, savedConnections, deleteConfirm, isDeleting, alertShown, errorModal, ops, connections, connOps, nextHandle, nextTabId, modalData>>

\* ------------------------------------------------------------------ gateway

\* get_schemas and get_tables of the databases the saved identities open
CatalogSchemas == <<"public">>
CatalogTables == <<"users">>

\* the characters of the catalog's names
C_public == <<"p", "u", "b", "l", "i", "c">>
C_users == <<"u", "s", "e", "r", "s">>

\* get_columns: the column definitions of a table, or none
UsersColumns ==
    <<[name |-> "id", data_type |-> "int4", is_pk |-> TRUE, is_unique |-> FALSE],
      [name |-> "email", data_type |-> "text", is_pk |-> FALSE, is_unique |-> TRUE]>>

ColumnAnswers == {<<>>, UsersColumns}

\* the handles connect_db has issued in this process
IssuedHandles == {LiveIds[i] : i \in 1..nextHandle}


\* ------------------------------------------------------------------ useAppStore

RemoveAt(seq, k) == SubSeq(seq, 1, k - 1) \o SubSeq(seq, k + 1, Len(seq))

\* connections.findIndex((c) => c.data.id === savedId), 0 for -1
findIndex(conns, savedId) ==
    IF \E i \in DOMAIN conns : conns[i].id = savedId
    THEN CHOOSE i \in DOMAIN conns :
            conns[i].id = savedId /\ \A j \in 1..(i-1) : conns[j].id # savedId
    ELSE 0

\* what an index past the end of the nodes holds: no node, no data
NoNode ==
    [id |-> Null, isOpen |-> FALSE, liveConnectionId |-> Null,
     schemas |-> NoList, isLoading |-> FALSE]

\* newConns[nodeIndex] = { ...newConns[nodeIndex], ...updates }: an index
\* past the end lengthens the array by nodes without data
setNode(conns, nodeIndex, updates) ==
    [i \in 1..(IF nodeIndex > Len(conns) THEN nodeIndex ELSE Len(conns)) |->
        IF i = nodeIndex
        THEN Merge(IF i \in DOMAIN conns THEN conns[i] ELSE NoNode, updates)
        ELSE IF i \in DOMAIN conns THEN conns[i] ELSE NoNode]

\* loadConnections that overrides the nodes with fresh ones
mergeConnectionsOverride(conns, saved) ==
    [i \in DOMAIN saved |->
        [id |-> saved[i], isOpen |-> FALSE, liveConnectionId |-> Null,
         schemas |-> NoList, isLoading |-> FALSE]]

\* loadConnections: the merge of the stored list into the nodes.  With a
\* node without data, c.data.id throws inside set and the catch of
\* loadConnections leaves the nodes as they are.
mergeConnections(conns, saved) ==
    IF \E i \in DOMAIN conns : conns[i].id = Null
    THEN conns
    ELSE [i \in DOMAIN saved |->
            IF findIndex(conns, saved[i]) # 0
            THEN conns[findIndex(conns, saved[i])]
            ELSE [id |-> saved[i], isOpen |-> FALSE, liveConnectionId |-> Null,
                  schemas |-> NoList, isLoading |-> FALSE]]

storeUnchanged ==
    UNCHANGED <<tabs, activeTabId, isSessionLoaded, activeConnectionId,
                activeSavedConnectionId, view, renderPending, timer, recon,
                session, savedConnections, deleteConfirm, isDeleting, alertShown, errorModal, ops, nextTabId, modalData>>

loadConnectionsStoreResolved(k) ==
    /\ connOps[k].kind = "load"
    /\ connections' = mergeConnections(connections, savedConnections)
    /\ connOps' = RemoveAt(connOps, k)
    /\ UNCHANGED <<globalConnectionId, nextHandle>>
    /\ storeUnchanged

loadConnectionsStoreRejected(k) ==
    /\ connOps[k].kind = "load"
    /\ connOps' = RemoveAt(connOps, k)
    /\ UNCHANGED <<connections, globalConnectionId, nextHandle>>
    /\ storeUnchanged

\* connect without `if (node.liveConnectionId) return node.liveConnectionId`
connectAgain(conns, savedId) ==
    LET nodeIndex == findIndex(conns, savedId)
    IN [connections |-> setNode(conns, nodeIndex, [isLoading |-> TRUE]),
        calls |-> <<StoreCall("connect", savedId, nodeIndex, "connect_db")>>,
        returns |-> Null]

\* connect(savedId) up to its first await, for a saved id the nodes hold:
\* the nodes it leaves, the gateway call it issues and, when it returns at
\* once, the handle it returns
connect(conns, savedId) ==
    LET nodeIndex == findIndex(conns, savedId)
        node == conns[nodeIndex]
    IN IF node.liveConnectionId # Null
       THEN [connections |-> conns, calls |-> <<>>,
             returns |-> node.liveConnectionId]
       ELSE [connections |-> setNode(conns, nodeIndex, [isLoading |-> TRUE]),
             calls |-> <<StoreCall("connect", savedId, nodeIndex, "connect_db")>>,
             returns |-> Null]

toggleConnection(savedId) ==
    LET nodeIndex == findIndex(connections, savedId)
        node == connections[nodeIndex]
        connecting == connect(setNode(connections, nodeIndex, [isOpen |-> TRUE]),
                              savedId)
    IN /\ Mounted
       /\ nodeIndex # 0
       /\ IF node.isOpen
          THEN /\ connections' = setNode(connections, nodeIndex, [isOpen |-> FALSE])
               /\ UNCHANGED connOps
          ELSE IF node.liveConnectionId # Null
          THEN /\ connections' = setNode(connections, nodeIndex, [isOpen |-> TRUE])
               /\ UNCHANGED connOps
          ELSE \* await connect(savedId)
               /\ Len(connOps) + Len(connecting.calls) <= MaxStoreCalls
               /\ connections' = connecting.connections
               /\ connOps' = connOps \o connecting.calls
       /\ UNCHANGED <<globalConnectionId, nextHandle>>
       /\ storeUnchanged

connectResolved(k) ==
    /\ connOps[k].kind = "connect"
    /\ connOps[k].pc = "connect_db"
    /\ nextHandle < MaxHandles
    /\ nextHandle' = nextHandle + 1
    /\ connOps' = [connOps EXCEPT ![k].pc = "get_schemas",
                                  ![k].liveId = LiveIds[nextHandle + 1]]
    /\ UNCHANGED <<connections, globalConnectionId>>
    /\ storeUnchanged

\* catch (err) of connect: connect_db or get_schemas rejected
connectRejected(k) ==
    /\ connOps[k].kind = "connect"
    /\ connections' = setNode(connections, connOps[k].nodeIndex,
                              [isLoading |-> FALSE, isOpen |-> FALSE])
    /\ connOps' = RemoveAt(connOps, k)
    /\ UNCHANGED <<globalConnectionId, nextHandle>>
    /\ storeUnchanged

getSchemasResolved(k) ==
    /\ connOps[k].kind = "connect"
    /\ connOps[k].pc = "get_schemas"
    /\ connections' =
         setNode(connections, connOps[k].nodeIndex,
                 [isLoading |-> FALSE, liveConnectionId |-> connOps[k].liveId,
                  schemas |-> List([i \in DOMAIN CatalogSchemas |->
                                      [name |-> CatalogSchemas[i],
                                       tables |-> NoList, isOpen |-> FALSE]]),
                  isOpen |-> TRUE])
    /\ globalConnectionId' = connOps[k].liveId
    /\ connOps' = RemoveAt(connOps, k)
    /\ UNCHANGED nextHandle
    /\ storeUnchanged

\* what an index past the end of the schemas holds
NoSchema == [name |-> Null, tables |-> NoList, isOpen |-> FALSE]

\* newSchemas = [...(newConns[nodeIndex].schemas || [])];
\* newSchemas[schemaIndex] = { ...newSchemas[schemaIndex], ...updates }:
\* with an index past the end of the nodes the read of .schemas throws
\* inside set, and the nodes stay as they are
setSchema(conns, nodeIndex, schemaIndex, updates) ==
    IF nodeIndex \notin DOMAIN conns
    THEN conns
    ELSE LET old == IF conns[nodeIndex].schemas = NoList THEN <<>>
                    ELSE conns[nodeIndex].schemas[1]
             len == IF schemaIndex > Len(old) THEN schemaIndex ELSE Len(old)
         IN setNode(conns, nodeIndex,
                [schemas |-> List([i \in 1..len |->
                    IF i = schemaIndex
                    THEN Merge(IF i \in DOMAIN old THEN old[i] ELSE NoSchema,
                               updates)
                    ELSE IF i \in DOMAIN old THEN old[i] ELSE NoSchema])])

toggleSchema(savedId, schemaIndex) ==
    LET nodeIndex == findIndex(connections, savedId)
        node == connections[nodeIndex]
        schema == node.schemas[1][schemaIndex]
    IN /\ Mounted
       /\ nodeIndex # 0
       /\ node.schemas # NoList
       /\ schemaIndex \in DOMAIN node.schemas[1]
       /\ IF schema.isOpen
          THEN /\ connections' = setSchema(connections, nodeIndex, schemaIndex,
                                           [isOpen |-> FALSE])
               /\ UNCHANGED connOps
          ELSE IF schema.tables = NoList /\ node.liveConnectionId # Null
          THEN /\ Len(connOps) < MaxStoreCalls
               /\ connOps' = Append(connOps,
                    [StoreCall("tables", savedId, nodeIndex, "get_tables")
                        EXCEPT !.schemaIndex = schemaIndex])
               /\ UNCHANGED connections
          ELSE /\ connections' = setSchema(connections, nodeIndex, schemaIndex,
                                           [isOpen |-> TRUE])
               /\ UNCHANGED connOps
       /\ UNCHANGED <<globalConnectionId, nextHandle>>
       /\ storeUnchanged

getTablesResolved(k) ==
    /\ connOps[k].kind = "tables"
    /\ connections' = setSchema(connections, connOps[k].nodeIndex,
                                connOps[k].schemaIndex,
                                [isOpen |-> TRUE, tables |-> List(CatalogTables)])
    /\ connOps' = RemoveAt(connOps, k)
    /\ UNCHANGED <<globalConnectionId, nextHandle>>
    /\ storeUnchanged

getTablesRejected(k) ==
    /\ connOps[k].kind = "tables"
    /\ connOps' = RemoveAt(connOps, k)
    /\ UNCHANGED <<connections, globalConnectionId, nextHandle>>
    /\ storeUnchanged

\* Sidebar.handleConfirmDelete up to its await of delete_connection: the
\* confirmation's button is disabled while a deletion is awaited
handleConfirmDelete(deleteId) ==
    /\ Mounted
    /\ findIndex(connections, deleteId) # 0
    /\ \A k \in DOMAIN connOps : connOps[k].kind # "delete"
    /\ Len(connOps) < MaxStoreCalls
    /\ connOps' = Append(connOps,
                         StoreCall("delete", deleteId, 0, "delete_connection"))
    /\ UNCHANGED <<connections, globalConnectionId, nextHandle>>
    /\ storeUnchanged

\* delete_connection resolved: the gateway has dropped the identity, and
\* loadConnections() is called
deleteConnectionResolved(k) ==
    /\ connOps[k].kind = "delete"
    /\ savedConnections' =
         SelectSeq(savedConnections, LAMBDA id : id # connOps[k].savedId)
    /\ connOps' = Append(RemoveAt(connOps, k),
                         StoreCall("load", Null, 0, "load_connections"))
    /\ UNCHANGED <<connections, globalConnectionId, nextHandle, tabs,
                   activeTabId, isSessionLoaded, activeConnectionId,
                   activeSavedConnectionId, view, renderPending, timer, recon,
                   session, deleteConfirm, isDeleting, alertShown, errorModal,
                   ops, nextTabId, modalData>>

\* delete_connection rejected: the catch of handleConfirmDelete
deleteConnectionRejected(k) ==
    /\ connOps[k].kind = "delete"
    /\ connOps' = RemoveAt(connOps, k)
    /\ UNCHANGED <<connections, globalConnectionId, nextHandle>>
    /\ storeUnchanged

\* ------------------------------------------------------------------ queries

\* the table names of a catalog that puts the quoting rule to work
QuoteNames ==
    <<<<"o", "r", "d", "e", "r", "s">>, <<"u", "s", "e", "r", "_", "i", "d">>,
      <<"_", "t", "e", "m", "p">>, <<"U", "s", "e", "r">>,
      <<"s", "e", "l", "e", "c", "t">>, <<"2", "f", "a">>,
      <<"o", "r", "d", "e", "r", " ", "b", "y">>>>

QuoteTables == [i \in DOMAIN QuoteNames |-> ToStr(QuoteNames[i])]

\* the texts of the values in a result row
C_Email == <<"a", "@", "b", ".", "c", "o", "m">>
C_OBrien == <<"O", "'", "B", "r", "i", "e", "n">>

\* The texts a tab's sql or title, a catalog name or a value can hold, as
\* characters.
KnownTexts ==
    {<<>>, C_DefaultSql, C_Select1, C_GenericTitle, C_public, C_users,
     C_public \o <<".">> \o C_users,
     C_TablePrefix \o C_users, <<"t", "a", "b", "l", "e", "s">>,
     C_OrdersSql, C_Orders, C_public \o <<".">> \o C_Orders,
     C_SelectEmail, C_JoinSql, C_UpdateSql, C_SelectT, C_a, C_t,
     C_public \o <<".">> \o C_a, C_public \o <<".">> \o C_t,
     C_ConfSql, C_conf, C_public \o <<".">> \o C_conf,
     C_Email, C_OBrien, <<"1">>}
    \cup UNION {{name, C_public \o <<".">> \o name, selectSql(C_public, name)} :
                   name \in {C_users} \cup Range(QuoteNames)}

\* the string of each known text
Spelled == [cs \in KnownTexts |-> ToStr(cs)]

\* the inverse of a one-to-one table
InverseOf(f) == [y \in {f[x] : x \in DOMAIN f} |-> CHOOSE x \in DOMAIN f : f[x] = y]

\* the characters of each string of the state
CharsOf == InverseOf(Spelled)

Chars(str) == CharsOf[str]

\* the table context runQuery infers from each known text
Inferred == [cs \in KnownTexts |-> inferTable(cs)]

\* canEdit of each known text
CanEdit == [cs \in KnownTexts |-> canEdit(cs)]

\* !queryToRun.trim() of each known text
Blank == [cs \in KnownTexts |-> IsBlank(cs)]

\* title.startsWith("Table: ") of each known text
TableTitled == [cs \in KnownTexts |-> startsWith(cs, C_TablePrefix)]

\* str.split(".") of each known text
Parts ==
    [cs \in KnownTexts |-> [i \in DOMAIN split(cs, ".") |-> ToStr(split(cs, ".")[i])]]

\* the statement of handleSelectTable for each pair of catalog names
SelectStatements ==
    [pair \in ({C_public, C_users} \cup Range(QuoteNames))
                \X ({C_public, C_users} \cup Range(QuoteNames)) |->
        ToStr(selectSql(pair[1], pair[2]))]

\* JavaScript values of a result row: typeof and the text String(val) (for
\* an object, JSON.stringify(val)) gives
JsNull == [type |-> "null", chars |-> <<>>]
JsNumber(cs) == [type |-> "number", chars |-> cs]
JsString(cs) == [type |-> "string", chars |-> cs]

\* the columns run_query answers a statement with
ResultColumns(sql, inferred) ==
    IF sql = "SELECT email FROM public.users;" THEN <<"email">>
    ELSE IF inferred.table # "" THEN <<"id", "email">>
    ELSE <<"?column?">>

\* the two rows run_query answers with, for the columns of the answer
ResultRows(columns) ==
    <<[i \in DOMAIN columns |->
         IF columns[i] = "id" THEN JsNumber(<<"1">>) ELSE JsString(C_Email)],
      [i \in DOMAIN columns |->
         IF columns[i] = "id" THEN JsNull ELSE JsString(C_OBrien)]>>

\* run_query's QueryResult for a statement
QueryResultOf(sql, inferred) ==
    [query |-> sql,
     columns |-> ResultColumns(sql, inferred),
     rows |-> ResultRows(ResultColumns(sql, inferred))]

\* the answers of run_query, by statement
QueryResults ==
    [cs \in KnownTexts |-> QueryResultOf(ToStr(cs), inferTable(cs))]

QueryResult(sql) == QueryResults[Chars(sql)]

\* What the user types into the editor.
TypedSql == {"", "SELECT * FROM public.\"Orders\" LIMIT 10;"}

Call(kind, pc, tabId, conn, sql, title) ==
    [kind |-> kind, pc |-> pc, tabId |-> tabId, conn |-> conn, sql |-> sql,
     title |-> title, schema |-> "", table |-> "", newTitle |-> title,
     cols |-> <<>>, rowIdentifiers |-> <<>>, generatedSql |-> "",
     deleteConfirm |-> [sql |-> "", isOpen |-> FALSE], awaited |-> FALSE]

queryUnchanged ==
    UNCHANGED <<recon, session, savedConnections, deleteConfirm, isDeleting, alertShown, nextHandle, nextTabId, modalData,
                connections, connOps>>

\* onChange={(v) => updateActiveTab({ sql: v || "" })}
sqlChange(v) ==
    /\ v # activeTab(view.tabs, view.activeTabId).sql
    /\ tabs' = updateActiveTab(tabs, view.activeTabId, [sql |-> v])
    /\ UNCHANGED <<activeTabId, isSessionLoaded, activeConnectionId,
                   activeSavedConnectionId, globalConnectionId, ops, errorModal>>
    /\ queryUnchanged
    /\ Commit

\* runQuery up to its first await: invoked by the Run button, by the
\* editor's Ctrl+Enter command, with the sql of the rendered active tab.
runQuery ==
    LET current == activeTab(view.tabs, view.activeTabId)
        queryToRun == current.sql
        targetConnectionId == current.connectionId
    IN IF Blank[Chars(queryToRun)] \/ targetConnectionId = Null
       THEN UNCHANGED vars
       ELSE /\ Len(ops) < MaxCalls
            /\ tabs' = updateActiveTab(tabs, view.activeTabId,
                          [isLoading |-> TRUE, error |-> Null, results |-> NoResults,
                           selectedTable |-> Null, columnDefs |-> <<>>])
            /\ ops' = Append(ops,
                             Call("run", "run_query", view.activeTabId,
                                  targetConnectionId, queryToRun, current.title))
            /\ UNCHANGED <<activeTabId, isSessionLoaded, activeConnectionId,
                           activeSavedConnectionId, globalConnectionId, errorModal>>
            /\ queryUnchanged
            /\ Commit

\* the updates of a continuation of runQuery or handleSelectTable: batched.
\* When the run is the one handleUpdateCell awaits, the onSave that awaits
\* handleUpdateCell goes on to setModalData(null).
applyToTab(k, updates, last) ==
    /\ tabs' = updateActiveTab(updateActiveTab(tabs, ops[k].tabId, updates),
                               ops[k].tabId, last)
    /\ ops' = RemoveAt(ops, k)
    /\ renderPending' = TRUE
    /\ modalData' = IF ops[k].awaited THEN NoModal ELSE modalData
    /\ UNCHANGED <<activeTabId, isSessionLoaded, activeConnectionId,
                   activeSavedConnectionId, globalConnectionId, view, timer,
                   recon, session, savedConnections, deleteConfirm, isDeleting,
                   alertShown, nextHandle, nextTabId, connections, connOps>>

\* updateActiveTab({ results: data, title: newTitle, ... }) and the finally
finishRun(k, newTitle, inferredSelectedTable, inferredColumnDefs) ==
    /\ UNCHANGED errorModal
    /\ applyToTab(k, [results |-> QueryResult(ops[k].sql), title |-> newTitle,
                   selectedTable |-> inferredSelectedTable,
                   columnDefs |-> inferredColumnDefs],
               [isLoading |-> FALSE])

\* run_query resolved: the table context is inferred and, with a table,
\* get_columns is awaited
runQueryResolved(k) ==
    /\ ops[k].kind = "run"
    /\ ops[k].pc = "run_query"
    /\ ops[k].conn \in IssuedHandles
    /\ LET inferred == Inferred[Chars(ops[k].sql)]
       IN IF inferred.table # ""
          THEN /\ ops' = [ops EXCEPT
                    ![k].pc = "get_columns",
                    ![k].schema = inferred.schema,
                    ![k].table = inferred.table,
                    ![k].newTitle =
                        IF \/ ops[k].title = GenericTitle
                           \/ TableTitled[Chars(ops[k].title)]
                        THEN inferred.table ELSE ops[k].title]
               /\ UNCHANGED <<tabs, activeTabId, isSessionLoaded,
                              activeConnectionId, activeSavedConnectionId,
                              globalConnectionId, view, renderPending, timer,
                              errorModal>>
               /\ queryUnchanged
          ELSE finishRun(k, ops[k].title, Null, <<>>)

\* catch (err) and finally of runQuery
runQueryRejected(k) ==
    /\ ops[k].kind = "run"
    /\ ops[k].pc = "run_query"
    /\ applyToTab(k, [error |-> ErrorText], [isLoading |-> FALSE])
    /\ errorModal' = [isOpen |-> TRUE, error |-> ErrorText, sql |-> ops[k].sql]

\* runColumnsResolved without `if (cols && cols.length > 0)`
runColumnsResolvedUnchecked(k, cols) ==
    /\ ops[k].kind = "run"
    /\ ops[k].pc = "get_columns"
    /\ finishRun(k, ops[k].newTitle, ops[k].schema \o "." \o ops[k].table, cols)

runColumnsResolved(k, cols) ==
    /\ ops[k].kind = "run"
    /\ ops[k].pc = "get_columns"
    /\ IF cols # <<>>
       THEN finishRun(k, ops[k].newTitle,
                      ops[k].schema \o "." \o ops[k].table, cols)
       ELSE finishRun(k, ops[k].newTitle, Null, <<>>)

\* the inner catch: "Failed to suggest columns"
runColumnsRejected(k) ==
    /\ ops[k].kind = "run"
    /\ ops[k].pc = "get_columns"
    /\ finishRun(k, ops[k].newTitle, Null, <<>>)

\* handleSelectTable up to its first await: a table of an open schema of
\* a connected node is clicked in the Sidebar
handleSelectTable(nodeIndex, schemaIndex, tableIndex) ==
    LET node == connections[nodeIndex]
        schemaNode == node.schemas[1][schemaIndex]
        connectionId == node.liveConnectionId
        savedId == node.id
        schema == schemaNode.name
        table == schemaNode.tables[1][tableIndex]
        tableKey == schema \o "." \o table
        newSql == SelectStatements[<<Chars(schema), Chars(table)>>]
    IN /\ nodeIndex \in DOMAIN connections
       /\ node.isOpen
       /\ node.schemas # NoList
       /\ schemaIndex \in DOMAIN node.schemas[1]
       /\ schemaNode.isOpen
       /\ schemaNode.tables # NoList
       /\ tableIndex \in DOMAIN schemaNode.tables[1]
       /\ connectionId # Null
       /\ Len(ops) < MaxCalls
       /\ activeConnectionId' = connectionId
       /\ globalConnectionId' = connectionId
       /\ activeSavedConnectionId' = savedId
       /\ tabs' = updateActiveTab(tabs, view.activeTabId,
                     [connectionId |-> connectionId, savedConnectionId |-> savedId,
                      selectedTable |-> tableKey, title |-> tableKey,
                      columnDefs |-> <<>>, sql |-> newSql, isLoading |-> TRUE,
                      error |-> Null, results |-> NoResults])
       /\ ops' = Append(ops,
                        [Call("select", "get_columns", view.activeTabId,
                              connectionId, newSql, tableKey)
                           EXCEPT !.schema = schema, !.table = table])
       /\ UNCHANGED <<activeTabId, isSessionLoaded, errorModal>>
       /\ queryUnchanged
       /\ Commit

selectColumnsResolved(k, cols) ==
    /\ ops[k].kind = "select"
    /\ ops[k].pc = "get_columns"
    /\ ops' = [ops EXCEPT ![k].pc = "run_query", ![k].cols = cols]
    /\ UNCHANGED <<tabs, activeTabId, isSessionLoaded, activeConnectionId,
                   activeSavedConnectionId, globalConnectionId, view,
                   renderPending, timer, errorModal>>
    /\ queryUnchanged

selectQueryResolved(k) ==
    /\ ops[k].kind = "select"
    /\ ops[k].pc = "run_query"
    /\ UNCHANGED errorModal
    /\ applyToTab(k, [columnDefs |-> ops[k].cols,
                      results |-> QueryResult(ops[k].sql), isLoading |-> FALSE],
                  [isLoading |-> FALSE])

\* catch (err) of handleSelectTable: get_columns or run_query rejected
selectRejected(k) ==
    /\ ops[k].kind = "select"
    /\ UNCHANGED errorModal
    /\ applyToTab(k, [error |-> ErrorText, isLoading |-> FALSE],
                  [isLoading |-> FALSE])

\* ------------------------------------------------------------------ editing

RECURSIVE escapeQuotes(_)
\* str.replace(/'/g, "''")
escapeQuotes(cs) ==
    IF cs = <<>> THEN <<>>
    ELSE (IF Head(cs) = "'" THEN <<"'", "'">> ELSE <<Head(cs)>>)
            \o escapeQuotes(Tail(cs))

\* the escaped spelling of each known text
Escaped == [cs \in KnownTexts |-> ToStr(escapeQuotes(cs))]

RECURSIVE join(_, _)
\* parts.join(sep)
join(parts, sep) ==
    IF parts = <<>> THEN ""
    ELSE IF Len(parts) = 1 THEN parts[1]
    ELSE parts[1] \o sep \o join(Tail(parts), sep)

\* columnDefs.find((c) => c.name === colName)?.data_type, or the default
dataTypeOf(columnDefs, colName, default) ==
    IF \E i \in DOMAIN columnDefs : columnDefs[i].name = colName
    THEN columnDefs[CHOOSE i \in DOMAIN columnDefs :
                       /\ columnDefs[i].name = colName
                       /\ \A j \in 1..(i - 1) : columnDefs[j].name # colName].data_type
    ELSE default

\* originalRow.map((val, idx) => [colName, strVal, dataType])
rowIdentifiers(originalRow, columns, columnDefs) ==
    [idx \in DOMAIN originalRow |->
        <<columns[idx],
          IF originalRow[idx].type = "null" THEN Null
          ELSE Spelled[originalRow[idx].chars],
          dataTypeOf(columnDefs, columns[idx], "text")>>]

\* pkColNames: the is_pk names, or the is_unique names when there is none
pkColNames(columnDefs) ==
    LET pks == {columnDefs[i].name : i \in {d \in DOMAIN columnDefs : columnDefs[d].is_pk}}
        uqs == {columnDefs[i].name : i \in {d \in DOMAIN columnDefs : columnDefs[d].is_unique}}
    IN IF pks = {} THEN uqs ELSE pks

\* the filter by the is_pk names alone
filteredIdentifiersPkOnly(originalRow, columns, columnDefs) ==
    LET all == rowIdentifiers(originalRow, columns, columnDefs)
        names == {columnDefs[i].name :
                     i \in {d \in DOMAIN columnDefs : columnDefs[d].is_pk}}
    IN IF names # {} THEN SelectSeq(all, LAMBDA r : r[1] \in names) ELSE all

filteredIdentifiers(originalRow, columns, columnDefs) ==
    LET all == rowIdentifiers(originalRow, columns, columnDefs)
        names == pkColNames(columnDefs)
    IN IF names # {} THEN SelectSeq(all, LAMBDA r : r[1] \in names) ELSE all

\* pkCols of handleDeleteRow: the is_pk definitions, or the is_unique ones
pkCols(columnDefs) ==
    LET pks == SelectSeq(columnDefs, LAMBDA c : c.is_pk)
    IN IF pks = <<>> THEN SelectSeq(columnDefs, LAMBDA c : c.is_unique) ELSE pks

\* colNames.indexOf(name), 0 for -1
indexOf(colNames, name) ==
    IF \E i \in DOMAIN colNames : colNames[i] = name
    THEN CHOOSE i \in DOMAIN colNames :
            colNames[i] = name /\ \A j \in 1..(i - 1) : colNames[j] # name
    ELSE 0

\* one condition of the DELETE statement
deleteCondition(name, val) ==
    IF val.type = "null" THEN "\"" \o name \o "\" IS NULL"
    ELSE "\"" \o name \o "\" = " \o
         (IF val.type \in {"number", "boolean"} THEN Spelled[val.chars]
          ELSE IF val.type = "object" THEN "'" \o Spelled[val.chars] \o "'"
          ELSE "'" \o Escaped[val.chars] \o "'")

\* The statement handleDeleteRow builds for a row of the tab, Null when it
\* returns without one.
buildDelete(currentTab, row) ==
    IF currentTab.selectedTable = Null \/ currentTab.results = NoResults THEN Null
    ELSE LET parts == Parts[Chars(currentTab.selectedTable)]
             schema == parts[1]
             table == parts[2]
             keys == pkCols(currentTab.columnDefs)
             colNames == currentTab.results.columns
             present == SelectSeq(keys, LAMBDA pk : indexOf(colNames, pk.name) # 0)
             conditions == [i \in DOMAIN present |->
                              deleteCondition(present[i].name,
                                              row[indexOf(colNames, present[i].name)])]
         IN IF keys = <<>> \/ conditions = <<>> THEN Null
            ELSE "DELETE FROM \"" \o schema \o "\".\"" \o table \o "\" WHERE "
                    \o join(conditions, " AND ") \o ";"

\* generatePreviewSql; newValue is Null or the characters of the new text
generatePreviewSql(tableName, columnName, newValue, originalRow, columns, columnDefs) ==
    IF tableName = Null THEN "-- Cannot generate preview: No table selected"
    ELSE LET parts == Parts[Chars(tableName)]
             names == pkColNames(columnDefs)
             kept == SelectSeq([i \in DOMAIN originalRow |-> i],
                               LAMBDA i : names = {} \/ columns[i] \in names)
             conditions ==
                [n \in DOMAIN kept |->
                    IF originalRow[kept[n]].type = "null"
                    THEN "\"" \o columns[kept[n]] \o "\" IS NULL"
                    ELSE "\"" \o columns[kept[n]] \o "\" = '"
                            \o Escaped[originalRow[kept[n]].chars] \o "'"]
         IN "UPDATE \"" \o parts[1] \o "\".\"" \o parts[2]
                \o "\" SET \"" \o columnName \o "\" = "
                \o (IF newValue = Null THEN "NULL"
                    ELSE "'" \o Escaped[newValue] \o "'")
                \o " WHERE " \o join(conditions, " AND ")

\* get_columns of the tables the editing handlers meet: keyed by id, no key
\* at all, a unique column only, a composite primary key
KeylessColumns ==
    <<[name |-> "id", data_type |-> "int4", is_pk |-> FALSE, is_unique |-> FALSE],
      [name |-> "email", data_type |-> "text", is_pk |-> FALSE, is_unique |-> FALSE]>>

UniqueColumns ==
    <<[name |-> "id", data_type |-> "int4", is_pk |-> FALSE, is_unique |-> FALSE],
      [name |-> "email", data_type |-> "text", is_pk |-> FALSE, is_unique |-> TRUE]>>

CompositeColumns ==
    <<[name |-> "id", data_type |-> "int4", is_pk |-> TRUE, is_unique |-> FALSE],
      [name |-> "email", data_type |-> "text", is_pk |-> TRUE, is_unique |-> FALSE]>>

EditColumnAnswers ==
    {<<>>, UsersColumns, KeylessColumns, UniqueColumns, CompositeColumns}

\* the new values the cell editor saves
NewValues == {Null, C_OBrien}

C_UpdateAlert ==
    "Can only update cells when a table is explicitly selected (no custom queries yet sorry!)"

C_DeleteAlert ==
    "Cannot delete rows from a table without a Primary Key or Unique Key defined."

\* the grid given the handlers whatever the statement
offersEditingAlways ==
    activeTab(view.tabs, view.activeTabId).results # NoResults

\* onUpdateCell={canEdit ? handleUpdateCell : undefined}: the grid of the
\* last render has the handlers and a result to show
offersEditing ==
    /\ CanEdit[Chars(activeTab(view.tabs, view.activeTabId).sql)]
    /\ activeTab(view.tabs, view.activeTabId).results # NoResults

editUnchanged ==
    UNCHANGED <<tabs, activeTabId, isSessionLoaded, activeConnectionId,
                activeSavedConnectionId, globalConnectionId, recon, session,
                savedConnections, nextHandle, nextTabId, connections, connOps>>

\* the render of a handler that leaves the tabs alone
modalCommit ==
    /\ editUnchanged
    /\ UNCHANGED modalData
    /\ Commit

\* handleUpdateCell up to its await of update_cell, called by the onSave
\* of the ResultsTable: `await onUpdateCell(...); setModalData(null)`.  When
\* handleUpdateCell returns after its alert, onSave closes the dialog.
handleUpdateCell(column, newValue, originalRow, columns) ==
    LET currentTab == activeTab(view.tabs, view.activeTabId)
        targetConnectionId == currentTab.connectionId
    IN /\ offersEditing
       /\ IF targetConnectionId = Null \/ currentTab.selectedTable = Null
          THEN /\ alertShown' = C_UpdateAlert
               /\ modalData' = NoModal
               /\ UNCHANGED <<ops, deleteConfirm, isDeleting, errorModal, view,
                              renderPending, timer>>
               /\ editUnchanged
          ELSE /\ Len(ops) < MaxEdits
               /\ ops' = Append(ops,
                    [Call("update", "update_cell", view.activeTabId,
                          targetConnectionId, currentTab.sql, currentTab.title)
                     EXCEPT
                       !.schema = Parts[Chars(currentTab.selectedTable)][1],
                       !.table = Parts[Chars(currentTab.selectedTable)][2],
                       !.rowIdentifiers =
                           filteredIdentifiers(originalRow, columns,
                                               currentTab.columnDefs),
                       !.generatedSql =
                           generatePreviewSql(currentTab.selectedTable, column,
                                              newValue, originalRow, columns,
                                              currentTab.columnDefs)])
               /\ UNCHANGED <<deleteConfirm, isDeleting, errorModal, alertShown,
                              view, renderPending, timer, modalData>>
               /\ editUnchanged

\* runQuery(queryToRun) called from a continuation: the refs of the last
\* render give the tab and its connection, the updates are batched
refresh(k, queryToRun, tabId, title) ==
    LET current == activeTab(view.tabs, view.activeTabId)
        targetConnectionId == current.connectionId
    IN IF Blank[Chars(queryToRun)] \/ targetConnectionId = Null
       THEN /\ ops' = RemoveAt(ops, k)
            /\ UNCHANGED tabs
       ELSE /\ tabs' = updateActiveTab(tabs, tabId,
                          [isLoading |-> TRUE, error |-> Null, results |-> NoResults,
                           selectedTable |-> Null, columnDefs |-> <<>>])
            /\ ops' = [ops EXCEPT ![k] =
                          [Call("run", "run_query", tabId, targetConnectionId,
                                queryToRun, title)
                           EXCEPT !.awaited = (ops[k].kind = "update")]]

continuationUnchanged ==
    UNCHANGED <<activeTabId, isSessionLoaded, activeConnectionId,
                activeSavedConnectionId, globalConnectionId, recon, session,
                savedConnections, nextHandle, nextTabId, connections, connOps,
                view, timer, alertShown>>

\* update_cell resolved: await runQueryRef.current(currentTab.sql); when
\* that runQuery returns at once, handleUpdateCell resolves and onSave
\* closes the dialog
updateCellResolved(k) ==
    /\ ops[k].kind = "update"
    /\ ops[k].conn \in IssuedHandles
    /\ refresh(k, ops[k].sql, view.activeTabId,
               activeTab(view.tabs, view.activeTabId).title)
    /\ modalData' = IF Len(ops') < Len(ops) THEN NoModal ELSE modalData
    /\ renderPending' = TRUE
    /\ UNCHANGED <<deleteConfirm, isDeleting, errorModal>>
    /\ continuationUnchanged

\* update_cell rejected: the catch of handleUpdateCell
updateCellRejected(k) ==
    /\ ops[k].kind = "update"
    /\ errorModal' = [isOpen |-> TRUE, error |-> ErrorText,
                      sql |-> ops[k].generatedSql]
    /\ ops' = RemoveAt(ops, k)
    /\ renderPending' = TRUE
    /\ UNCHANGED <<tabs, deleteConfirm, isDeleting, modalData>>
    /\ continuationUnchanged

\* handleDeleteRow without the refusal: a table without a key is addressed
\* by all its columns
handleDeleteRowAllColumns(row) ==
    LET currentTab == activeTab(view.tabs, view.activeTabId)
        keyed == IF pkCols(currentTab.columnDefs) # <<>> THEN currentTab
                 ELSE [currentTab EXCEPT !.columnDefs =
                          [i \in DOMAIN currentTab.columnDefs |->
                              [currentTab.columnDefs[i] EXCEPT !.is_pk = TRUE]]]
        sql == buildDelete(keyed, row)
    IN /\ offersEditing
       /\ IF sql = Null
          THEN /\ UNCHANGED <<ops, deleteConfirm, isDeleting, errorModal, view,
                              renderPending, timer, alertShown, modalData>>
               /\ editUnchanged
          ELSE /\ deleteConfirm' = [sql |-> sql, isOpen |-> TRUE]
               /\ UNCHANGED <<ops, isDeleting, errorModal, alertShown>>
               /\ modalCommit

\* handleDeleteRow: the statement is built and the confirmation opened
handleDeleteRow(row) ==
    LET currentTab == activeTab(view.tabs, view.activeTabId)
        sql == buildDelete(currentTab, row)
    IN /\ offersEditing
       /\ IF sql = Null
          THEN /\ alertShown' =
                    IF currentTab.selectedTable # Null
                       /\ pkCols(currentTab.columnDefs) = <<>>
                    THEN C_DeleteAlert ELSE alertShown
               /\ UNCHANGED <<ops, deleteConfirm, isDeleting, errorModal, view,
                              renderPending, timer, modalData>>
               /\ editUnchanged
          ELSE /\ deleteConfirm' = [sql |-> sql, isOpen |-> TRUE]
               /\ UNCHANGED <<ops, isDeleting, errorModal, alertShown>>
               /\ modalCommit

\* onConfirm={executeDelete} up to its await of run_query
executeDelete ==
    LET current == activeTab(view.tabs, view.activeTabId)
        targetConnectionId == current.connectionId
    IN /\ view.deleteConfirm.isOpen
       /\ ~view.isDeleting
       /\ targetConnectionId # Null
       /\ Len(ops) < MaxEdits
       /\ isDeleting' = TRUE
       /\ ops' = Append(ops,
                    [Call("delete", "run_query", view.activeTabId,
                          targetConnectionId, current.sql, current.title)
                     EXCEPT !.deleteConfirm = view.deleteConfirm])
       /\ UNCHANGED <<deleteConfirm, errorModal, alertShown>>
       /\ modalCommit

\* run_query of the DELETE resolved: the confirmation is closed and the
\* tab's statement run again, then the finally
deleteResolved(k) ==
    /\ ops[k].kind = "delete"
    /\ ops[k].conn \in IssuedHandles
    /\ deleteConfirm' = [ops[k].deleteConfirm EXCEPT !.isOpen = FALSE]
    /\ refresh(k, ops[k].sql, ops[k].tabId, ops[k].title)
    /\ isDeleting' = FALSE
    /\ renderPending' = TRUE
    /\ UNCHANGED <<errorModal, modalData>>
    /\ continuationUnchanged

\* run_query of the DELETE rejected: catch and finally of executeDelete
deleteRejected(k) ==
    /\ ops[k].kind = "delete"
    /\ errorModal' = [isOpen |-> TRUE, error |-> ErrorText,
                      sql |-> ops[k].deleteConfirm.sql]
    /\ isDeleting' = FALSE
    /\ ops' = RemoveAt(ops, k)
    /\ renderPending' = TRUE
    /\ UNCHANGED <<tabs, deleteConfirm, modalData>>
    /\ continuationUnchanged

\* onClose={() => setDeleteConfirm({ ...deleteConfirm, isOpen: false })}
closeDeleteConfirm ==
    /\ view.deleteConfirm.isOpen
    /\ ~view.isDeleting
    /\ deleteConfirm' = [view.deleteConfirm EXCEPT !.isOpen = FALSE]
    /\ UNCHANGED <<ops, isDeleting, errorModal, alertShown>>
    /\ modalCommit

\* onClose={() => setErrorModal({ ...errorModal, isOpen: false })}
closeErrorModal ==
    /\ view.errorModal.isOpen
    /\ errorModal' = [view.errorModal EXCEPT !.isOpen = FALSE]
    /\ UNCHANGED <<ops, deleteConfirm, isDeleting, alertShown>>
    /\ modalCommit

\* ------------------------------------------------------------------ spec

\* loadSession's two fetches
Fetch ==
    \/ loadSessionResolved
    \/ loadSessionRejected
    \/ loadConnectionsResolved
    \/ loadConnectionsRejected

\* loadSession's continuations
Reconcile ==
    \/ Fetch
    \/ connectDbResolved
    \/ connectDbRejected

\* the tab bar
TabStore ==
    \/ addTab
    \/ \E id \in TabIds(view.tabs) : closeTab(id)
    \/ \E id \in TabIds(view.tabs) : selectTab(id)

\* useAppStore
NextStore ==
    \/ \E k \in DOMAIN connOps : loadConnectionsStoreResolved(k)
    \/ \E k \in DOMAIN connOps : loadConnectionsStoreRejected(k)
    \/ \E id \in SavedIds : toggleConnection(id)
    \/ \E k \in DOMAIN connOps : connectResolved(k)
    \/ \E k \in DOMAIN connOps : connectRejected(k)
    \/ \E k \in DOMAIN connOps : getSchemasResolved(k)
    \/ \E id \in SavedIds : \E i \in DOMAIN CatalogSchemas : toggleSchema(id, i)
    \/ \E k \in DOMAIN connOps : getTablesResolved(k)
    \/ \E k \in DOMAIN connOps : getTablesRejected(k)

\* the Sidebar's deletion of a saved connection
SidebarDelete ==
    \/ \E id \in SavedIds : handleConfirmDelete(id)
    \/ \E k \in DOMAIN connOps : deleteConnectionResolved(k)
    \/ \E k \in DOMAIN connOps : deleteConnectionRejected(k)

\* runQuery and its continuations
RunSteps ==
    \/ runQuery
    \/ \E k \in DOMAIN ops : runQueryResolved(k)
    \/ \E k \in DOMAIN ops : runQueryRejected(k)
    \/ \E k \in DOMAIN ops : \E cols \in ColumnAnswers : runColumnsResolved(k, cols)
    \/ \E k \in DOMAIN ops : runColumnsRejected(k)

\* the editor
Typing == \E v \in TypedSql : sqlChange(v)

\* handleSelectTable and its continuations
NextSelect ==
    \/ \E n \in DOMAIN connections : \E i \in DOMAIN CatalogSchemas :
          \E j \in DOMAIN CatalogTables : handleSelectTable(n, i, j)
    \/ \E k \in DOMAIN ops : \E cols \in ColumnAnswers : selectColumnsResolved(k, cols)
    \/ \E k \in DOMAIN ops : selectQueryResolved(k)
    \/ \E k \in DOMAIN ops : selectRejected(k)

\* onZoom of a cell of the rendered grid: setModalData({ value, row, colIdx });
\* the dialog, once shown, lies over the grid
onZoom(i, colIdx) ==
    LET current == activeTab(view.tabs, view.activeTabId)
    IN /\ modalData = NoModal
       /\ ~current.isLoading
       /\ i \in DOMAIN current.results.rows
       /\ colIdx \in DOMAIN current.results.columns
       /\ modalData' = [row |-> current.results.rows[i], colIdx |-> colIdx]
       /\ UNCHANGED <<ops, deleteConfirm, isDeleting, errorModal, alertShown,
                      view, renderPending, timer>>
       /\ editUnchanged

\* the dialog is rendered: with the grid, when modalData !== null
dialogShown ==
    /\ modalData # NoModal
    /\ ~activeTab(view.tabs, view.activeTabId).isLoading
    /\ activeTab(view.tabs, view.activeTabId).results # NoResults

\* onClose={() => setModalData(null)} of the dialog the grid shows
closeModal ==
    /\ dialogShown
    /\ modalData' = NoModal
    /\ UNCHANGED <<ops, deleteConfirm, isDeleting, errorModal, alertShown,
                   view, renderPending, timer>>
    /\ editUnchanged

\* DataModal.handleSave -> onSave of the ResultsTable; the Save button is
\* disabled while a save is awaited (isSaving)
handleSave(newValue) ==
    LET data == activeTab(view.tabs, view.activeTabId).results
    IN /\ dialogShown
       /\ \A k \in DOMAIN ops : ops[k].kind # "update" /\ ~ops[k].awaited
       /\ modalData.colIdx \in DOMAIN data.columns
       /\ handleUpdateCell(data.columns[modalData.colIdx], newValue,
                           modalData.row, data.columns)

\* the result grid's editing and the confirmation dialog
EditSteps ==
    \/ LET data == activeTab(view.tabs, view.activeTabId).results
       IN \E i \in DOMAIN data.rows : \E c \in DOMAIN data.columns :
             \E newValue \in NewValues :
                handleUpdateCell(data.columns[c], newValue, data.rows[i],
                                 data.columns)
    \/ \E k \in DOMAIN ops : updateCellResolved(k)
    \/ LET data == activeTab(view.tabs, view.activeTabId).results
       IN \E i \in DOMAIN data.rows : handleDeleteRow(data.rows[i])
    \/ executeDelete
    \/ \E k \in DOMAIN ops : deleteResolved(k)
    \/ closeDeleteConfirm

\* the cell dialog of the result grid
DialogSteps ==
    \/ LET data == activeTab(view.tabs, view.activeTabId).results
       IN \E i \in DOMAIN data.rows : \E c \in DOMAIN data.columns : onZoom(i, c)
    \/ \E newValue \in NewValues : handleSave(newValue)
    \/ closeModal
    \/ \E k \in DOMAIN ops : updateCellResolved(k)

\* the gateway refuses an edit, and the error dialog
EditFailures ==
    \/ \E k \in DOMAIN ops : updateCellRejected(k)
    \/ \E k \in DOMAIN ops : deleteRejected(k)
    \/ closeErrorModal

\* The whole Workspace.
Next ==
    \/ render \/ TabStore \/ autoSave \/ Reconcile
    \/ NextStore \/ Typing \/ RunSteps \/ NextSelect \/ EditSteps
    \/ EditFailures \/ SidebarDelete \/ DialogSteps

Spec == Init /\ [][Next]_vars

\* The session lifecycle: the tab bar, loadSession and the persister, from
\* every stored snapshot.
NextSession == render \/ TabStore \/ autoSave \/ Reconcile

SpecSession == Init /\ [][NextSession]_vars

\* The same steps from the snapshots with legacy tabs.
InitLegacy == InitFrom(LegacySessions)

SpecLegacy == InitLegacy /\ [][NextSession]_vars

\* The tab list under the tab bar, loadSession and runQuery.
NextTabs == render \/ TabStore \/ Reconcile \/ RunSteps

SpecTabs == Init /\ [][NextTabs]_vars

\* The query pipeline on the tabs of a restored two-tab session.
InitRun ==
    /\ Init
    /\ Len(session.tabs) = 2
    /\ savedConnections = <<"s1", "s2">>

NextRun ==
    \/ render \/ Reconcile \/ Typing \/ RunSteps
    \/ \E id \in TabIds(view.tabs) : selectTab(id)

SpecRun == InitRun /\ [][NextRun]_vars

\* The Sidebar: the registry and handleSelectTable, with nothing to restore.
InitSelect ==
    /\ Init
    /\ session.tabs = <<>>
    /\ session.last_query = Null
    /\ savedConnections = <<"s2">>

SpecSelect == InitSelect /\ [][render \/ Fetch \/ NextStore \/ NextSelect]_vars

\* The registry next to loadSession, from every stored snapshot.
SpecRegistry == Init /\ [][render \/ Reconcile \/ NextStore]_vars

\* The registry while saved connections are deleted and the list is loaded
\* again, with nothing to restore.
InitReload ==
    /\ Init
    /\ session.tabs = <<>>
    /\ session.last_query = Null
    /\ savedConnections = <<"s1", "s2">>

SpecReload == InitReload /\ [][NextStore \/ SidebarDelete]_vars

\* Editing the result grid: one restored tab per statement, every table
\* shape get_columns can answer with.
EditSql ==
    {"SELECT * FROM public.users LIMIT 100;", "SELECT email FROM public.users;",
     "select * from t", "select * from a join b on a.id=b.id",
     "update t set x=1", "  Select * FROM conf"}

InitEdit ==
    /\ tabs = <<NewTab("1", Null, Null, DefaultSql)>>
    /\ activeTabId = "1"
    /\ isSessionLoaded = FALSE
    /\ activeConnectionId = Null
    /\ activeSavedConnectionId = Null
    /\ renderPending = FALSE
    /\ timer = FALSE
    /\ recon = [pc |-> "load_session"]
    /\ \E sql \in EditSql :
          session = Snapshot(DeadHandle, "s2", Null,
                             <<PersistedTab("1", GenericTitle, sql, DeadHandle, "s2")>>,
                             "1")
    /\ savedConnections = <<"s2">>
    /\ nextHandle = 0
    /\ nextTabId = 0
    /\ globalConnectionId = Null
    /\ connections = <<>>
    /\ connOps = <<StoreCall("load", Null, 0, "load_connections")>>
    /\ ops = <<>>
    /\ deleteConfirm = [sql |-> "", isOpen |-> FALSE]
    /\ isDeleting = FALSE
    /\ errorModal = [isOpen |-> FALSE, error |-> Null, sql |-> ""]
    /\ alertShown = Null
    /\ modalData = NoModal
    /\ view = CurrentView

NextEdit ==
    \/ render \/ Reconcile \/ EditSteps
    \/ runQuery
    \/ \E k \in DOMAIN ops : runQueryResolved(k)
    \/ \E k \in DOMAIN ops : \E cols \in EditColumnAnswers : runColumnsResolved(k, cols)
    \/ \E k \in DOMAIN ops : runColumnsRejected(k)

SpecEdit == InitEdit /\ [][NextEdit]_vars

\* Browsing a catalog: the Sidebar after the saved connection and its schema
\* were opened, with nothing restored.
InitQuote ==
    /\ tabs = <<NewTab("1", Null, Null, DefaultSql)>>
    /\ activeTabId = "1"
    /\ isSessionLoaded = TRUE
    /\ activeConnectionId = Null
    /\ activeSavedConnectionId = Null
    /\ renderPending = FALSE
    /\ timer = TRUE
    /\ session = Snapshot(Null, Null, Null, <<>>, Null)
    /\ recon = [pc |-> "done", session |-> session, savedToLiveMap |-> <<>>,
                log |-> NoLog]
    /\ savedConnections = <<"s2">>
    /\ nextHandle = 1
    /\ nextTabId = 0
    /\ globalConnectionId = LiveIds[1]
    /\ connections =
          <<[id |-> "s2", isOpen |-> TRUE, liveConnectionId |-> LiveIds[1],
             schemas |-> List(<<[name |-> CatalogSchemas[1],
                                 tables |-> List(QuoteTables),
                                 isOpen |-> TRUE]>>),
             isLoading |-> FALSE]>>
    /\ connOps = <<>>
    /\ ops = <<>>
    /\ deleteConfirm = [sql |-> "", isOpen |-> FALSE]
    /\ isDeleting = FALSE
    /\ errorModal = [isOpen |-> FALSE, error |-> Null, sql |-> ""]
    /\ alertShown = Null
    /\ modalData = NoModal
    /\ view = CurrentView

NextQuote ==
    \/ render
    \/ \E n \in DOMAIN connections : \E i \in DOMAIN CatalogSchemas :
          \E j \in DOMAIN QuoteTables : handleSelectTable(n, i, j)
    \/ \E k \in DOMAIN ops : \E cols \in ColumnAnswers : selectColumnsResolved(k, cols)
    \/ \E k \in DOMAIN ops : selectQueryResolved(k)
    \/ \E k \in DOMAIN ops : selectRejected(k)

SpecQuote == InitQuote /\ [][NextQuote]_vars

\* The cell dialog and the confirmation of a deletion, with a gateway that
\* can refuse: one restored tab on public.users.
InitDialog ==
    /\ InitEdit
    /\ session.tabs[1].sql = "SELECT * FROM public.users LIMIT 100;"

NextDialog ==
    \/ render \/ Reconcile \/ DialogSteps
    \/ \E k \in DOMAIN ops : updateCellRejected(k)
    \/ \E k \in DOMAIN ops : deleteRejected(k)
    \/ LET data == activeTab(view.tabs, view.activeTabId).results
       IN /\ modalData = NoModal
          /\ \E i \in DOMAIN data.rows : handleDeleteRow(data.rows[i])
    \/ executeDelete
    \/ \E k \in DOMAIN ops : deleteResolved(k)
    \/ closeDeleteConfirm
    \/ ops = <<>> /\ modalData = NoModal /\ runQuery
    \/ \E k \in DOMAIN ops : runQueryResolved(k)
    \/ \E k \in DOMAIN ops : runQueryRejected(k)
    \/ \E k \in DOMAIN ops : \E cols \in ColumnAnswers : runColumnsResolved(k, cols)

SpecDialog == InitDialog /\ [][NextDialog]_vars

\* The persister next to the editor and runQuery: one restored tab, typed
\* into and run while the auto-save timer is pending.
InitSave ==
    /\ InitEdit
    /\ session.tabs[1].sql = "SELECT * FROM public.users LIMIT 100;"

NextSave == render \/ Reconcile \/ Typing \/ RunSteps \/ autoSave

SpecSave == InitSave /\ [][NextSave]_vars

\* ------------------------------------------------------------------ properties

\* C1: when load_session or load_connections rejects, loadSession aborts and
\* isSessionLoaded is not set to true by that attempt.
C1_FailedLoadNotMarkedLoaded ==
    recon.pc = "failed" => ~isSessionLoaded

\* C2: save_session is called only after loadSession has completed
\* successfully in this process; after a failed load no debounced write
\* replaces the stored snapshot.
C2_NoSaveBeforeReconciled ==
    [][autoSave => recon.pc = "done"]_vars

\* C3: every tab loadSession rebuilds has connectionId null or a handle that
\* connect_db returned during this loadSession, whatever connection_id the
\* snapshot stored for it.
C3_RebuiltHandlesLive ==
    recon.pc = "done" =>
        \A i \in DOMAIN recon.session.tabs :
            restoreTab(recon.session.tabs[i], recon.session,
                       recon.savedToLiveMap).connectionId
                \in {Null} \cup {recon.savedToLiveMap[k] :
                                    k \in DOMAIN recon.savedToLiveMap}

C5_ActiveTabExists ==
    activeTabId \in TabIds(tabs)

\* C6: no two query executions are in flight for the same tab.
C6_OneExecutionPerTab ==
    \A i, j \in DOMAIN ops : i # j => ops[i].tabId # ops[j].tabId

\* C7: a response that settles while a later execution on the same tab is
\* still in flight leaves the tab's results, error, selectedTable, columnDefs
\* and isLoading as they are.
C7_StaleResponseDropped ==
    [][\A k \in DOMAIN ops :
          (/\ ops' = RemoveAt(ops, k)
           /\ \E j \in DOMAIN ops : j > k /\ ops[j].tabId = ops[k].tabId)
          => \A i \in DOMAIN tabs :
                tabs[i].id = ops[k].tabId =>
                   /\ i \in DOMAIN tabs'
                   /\ tabs'[i].results = tabs[i].results
                   /\ tabs'[i].error = tabs[i].error
                   /\ tabs'[i].selectedTable = tabs[i].selectedTable
                   /\ tabs'[i].columnDefs = tabs[i].columnDefs
                   /\ tabs'[i].isLoading = tabs[i].isLoading]_vars

\* C8: in every tab selectedTable is non-null only together with non-empty
\* columnDefs, and columnDefs is empty whenever selectedTable is null.
C8_SelectedTableHasColumns ==
    \A i \in DOMAIN tabs :
        /\ tabs[i].selectedTable # Null => tabs[i].columnDefs # <<>>
        /\ tabs[i].selectedTable = Null => tabs[i].columnDefs = <<>>

\* C9: for each saved identity, the tabs addressing it and its registry node
\* hold at most one handle issued in this process.
C9_OneHandlePerIdentity ==
    \A s \in SavedIds :
        Cardinality(
            ({tabs[i].connectionId :
                 i \in {t \in DOMAIN tabs : tabs[t].savedConnectionId = s}}
             \cup {connections[n].liveConnectionId :
                      n \in {c \in DOMAIN connections : connections[c].id = s}})
            \cap IssuedHandles) <= 1

\* C10: the snapshot the persister is about to write, reconciled with every
\* saved identity it names connectable, gives back the same tab ids, sql and
\* titles and the same activeTabId, with every transient field reset.
C10_RoundTrip ==
    timer =>
        LET s == persistSession(view.tabs, view.activeTabId,
                                view.activeConnectionId,
                                view.activeSavedConnectionId)
            needed == neededSavedIds(s)
            savedToLiveMap == [id \in Range(needed) |-> LiveIds[1]]
            rebuilt == restoredTabs(s, savedToLiveMap)
        IN /\ Len(s.tabs) > 0
           /\ Len(rebuilt) = Len(view.tabs)
           /\ \A i \in DOMAIN rebuilt :
                 /\ rebuilt[i].id = view.tabs[i].id
                 /\ rebuilt[i].sql = view.tabs[i].sql
                 /\ rebuilt[i].title = view.tabs[i].title
                 /\ rebuilt[i].results = NoResults
                 /\ rebuilt[i].error = Null
                 /\ rebuilt[i].selectedTable = Null
                 /\ rebuilt[i].columnDefs = <<>>
                 /\ rebuilt[i].isLoading = FALSE
           /\ restoredActiveTabId(s) = view.activeTabId

\* C11: on the step that completes loadSession, every rebuilt tab whose
\* saved_connection_id connected holds the handle connect_db issued for it in
\* this loadSession, not the stored one, and its results, error and
\* selectedTable are null, columnDefs empty and isLoading false.
C11_RebuiltFromNewHandle ==
    [][(recon.pc # "done" /\ recon'.pc = "done" /\ Len(recon'.session.tabs) > 0)
        => /\ Len(tabs') = Len(recon'.session.tabs)
           /\ \A i \in DOMAIN recon'.session.tabs :
                LET t == recon'.session.tabs[i]
                    m == recon'.savedToLiveMap
                IN /\ tabs'[i].id = t.id
                   /\ tabs'[i].results = NoResults
                   /\ tabs'[i].error = Null
                   /\ tabs'[i].selectedTable = Null
                   /\ tabs'[i].columnDefs = <<>>
                   /\ tabs'[i].isLoading = FALSE
                   /\ (t.saved_connection_id \in DOMAIN m =>
                         /\ tabs'[i].connectionId = m[t.saved_connection_id]
                         /\ tabs'[i].connectionId \in IssuedHandles'
                         /\ tabs'[i].connectionId # t.connection_id)]_vars

\* C11: loadSession has completed, a persisted tab's saved id connected and
\* the rebuilt tab holds the new handle.
C11_TabReconnected ==
    /\ recon.pc = "done"
    /\ \E i \in DOMAIN recon.session.tabs :
          /\ recon.session.tabs[i].saved_connection_id \in DOMAIN recon.savedToLiveMap
          /\ recon.session.tabs[i].connection_id = DeadHandle
          /\ i \in DOMAIN tabs
          /\ tabs[i].id = recon.session.tabs[i].id
          /\ tabs[i].connectionId =
                recon.savedToLiveMap[recon.session.tabs[i].saved_connection_id]

\* C12: isLoading is true only for a tab that has a run or a selectTable in
\* flight: every execution that finishes leaves it false.
C12_LoadingOnlyInFlight ==
    \A i \in DOMAIN tabs :
        tabs[i].isLoading => \E k \in DOMAIN ops : ops[k].tabId = tabs[i].id

\* C13: a successful run applies the query results; its tab gets
\* selectedTable "S.T" and the returned columnDefs exactly when the SQL has a
\* FROM target naming T in S (S "public" for a one-part target) and
\* get_columns returned at least one column; when get_columns returned
\* nothing or rejected, or no target matched, selectedTable is null and
\* columnDefs is empty.
C13_InferredTableContext ==
    [][\A k \in DOMAIN ops :
        LET target == Inferred[Chars(ops[k].sql)]
            key == target.schema \o "." \o target.table
            applied(sel, defs) ==
                \A i \in DOMAIN tabs' :
                    tabs'[i].id = ops[k].tabId =>
                        /\ tabs'[i].results = QueryResult(ops[k].sql)
                        /\ tabs'[i].selectedTable = sel
                        /\ tabs'[i].columnDefs = defs
        IN /\ runQueryResolved(k) =>
                IF target.table = "" THEN applied(Null, <<>>)
                ELSE ops'[k].pc = "get_columns" /\ UNCHANGED tabs
           /\ \A cols \in ColumnAnswers :
                runColumnsResolved(k, cols) =>
                    /\ target.table # ""
                    /\ IF cols # <<>> THEN applied(key, cols)
                       ELSE applied(Null, <<>>)
           /\ runColumnsRejected(k) => applied(Null, <<>>)]_vars

\* C13: running SELECT * FROM public."Orders" LIMIT 10; has given its tab
\* selectedTable "public.Orders" with the columns get_columns returned.
C13_OrdersInferred ==
    \E i \in DOMAIN tabs :
        /\ tabs[i].sql = "SELECT * FROM public.\"Orders\" LIMIT 10;"
        /\ tabs[i].selectedTable = "public.Orders"
        /\ tabs[i].columnDefs = UsersColumns
        /\ tabs[i].results = QueryResult(tabs[i].sql)
        /\ ~tabs[i].isLoading

\* C14: the rowIdentifiers sent to update_cell name the columns with is_pk
\* when columnDefs has any, otherwise the columns with is_unique when it has
\* any, otherwise all columns of the row.
C14_IdentifyingColumns ==
    [][(Len(ops') = Len(ops) + 1 /\ ops'[Len(ops')].kind = "update") =>
        LET currentTab == activeTab(view.tabs, view.activeTabId)
            defs == currentTab.columnDefs
            pk == {defs[i].name : i \in {d \in DOMAIN defs : defs[d].is_pk}}
            unique == {defs[i].name : i \in {d \in DOMAIN defs : defs[d].is_unique}}
            sent == ops'[Len(ops')].rowIdentifiers
        IN {sent[i][1] : i \in DOMAIN sent} =
              IF pk # {} THEN pk
              ELSE IF unique # {} THEN unique
              ELSE Range(currentTab.results.columns)]_vars

\* C15: when columnDefs has a primary-key column, the DELETE statement that
\* handleDeleteRow puts up for confirmation has exactly one condition per
\* primary-key column, AND-joined and built from a row's value for that
\* column, and no other condition.
C15_DeleteByPrimaryKey ==
    [][(deleteConfirm'.isOpen /\ deleteConfirm' # deleteConfirm) =>
        LET currentTab == activeTab(view.tabs, view.activeTabId)
            pk == SelectSeq(currentTab.columnDefs, LAMBDA c : c.is_pk)
            data == currentTab.results
            parts == Parts[Chars(currentTab.selectedTable)]
        IN pk # <<>> =>
            \E r \in DOMAIN data.rows :
                /\ \A j \in DOMAIN pk : indexOf(data.columns, pk[j].name) # 0
                /\ deleteConfirm'.sql =
                      "DELETE FROM \"" \o parts[1] \o "\".\""
                        \o parts[2] \o "\" WHERE "
                        \o join([j \in DOMAIN pk |->
                                   deleteCondition(pk[j].name,
                                       data.rows[r][indexOf(data.columns, pk[j].name)])],
                                " AND ")
                        \o ";"]_vars

\* C16: on a tab whose columnDefs has no primary-key and no unique column,
\* delete-row builds no statement for any row: the confirmation is not
\* opened, no gateway call is issued and the tabs are unchanged.
C16_NoKeyNoDelete ==
    [][LET currentTab == activeTab(view.tabs, view.activeTabId)
       IN (/\ \A i \in DOMAIN currentTab.columnDefs :
                 /\ ~currentTab.columnDefs[i].is_pk
                 /\ ~currentTab.columnDefs[i].is_unique
           /\ \E r \in DOMAIN currentTab.results.rows :
                 handleDeleteRow(currentTab.results.rows[r]))
          => UNCHANGED <<deleteConfirm, ops, tabs, session>>]_vars

\* a keyless tab on which delete-row was refused
C16_DeleteRefused ==
    /\ alertShown = C_DeleteAlert
    /\ activeTab(tabs, activeTabId).columnDefs = KeylessColumns
    /\ activeTab(tabs, activeTabId).results # NoResults
    /\ ~deleteConfirm.isOpen
    /\ ops = <<>>

\* the text, trimmed and lower-cased, starts with "select"
StartsWithSelect(cs) ==
    \E n \in 0..Len(cs) :
        /\ \A i \in 1..n : cs[i] \in SpaceChars
        /\ n + 6 <= Len(cs)
        /\ [i \in 1..6 |-> toLowerCase(cs[n + i])] = <<"s", "e", "l", "e", "c", "t">>

\* the text holds ON as a whole word, in any case
HasWholeWordOn(cs) ==
    \E i \in 1..(Len(cs) - 1) :
        /\ cs[i] \in {"o", "O"} /\ cs[i + 1] \in {"n", "N"}
        /\ (i > 1 => cs[i - 1] \notin WordChars)
        /\ (i + 2 <= Len(cs) => cs[i + 2] \notin WordChars)

\* the claimed criterion, for each known text
SelectWithoutOn ==
    [cs \in KnownTexts |-> StartsWithSelect(cs) /\ ~HasWholeWordOn(cs)]

\* C17: canEdit of the rendered active tab is true exactly when its SQL,
\* trimmed and lower-cased, starts with "select" and holds no whole-word ON
\* in any case; and a step of the update-cell or delete-row handler is taken
\* only from a render whose canEdit is true.
C17_EditOnlySelectWithoutOn ==
    [][LET cs == Chars(activeTab(view.tabs, view.activeTabId).sql)
       IN /\ CanEdit[cs] <=> SelectWithoutOn[cs]
          /\ (\/ (Len(ops') = Len(ops) + 1 /\ ops'[Len(ops')].kind = "update")
              \/ (deleteConfirm'.isOpen /\ deleteConfirm' # deleteConfirm)
              \/ (alertShown' # alertShown
                    /\ alertShown' \in {C_UpdateAlert, C_DeleteAlert}))
             => SelectWithoutOn[cs]]_vars

\* an update in flight from an editable statement, and a statement with ON
\* shown with its result
C17_EditedWhileEditable ==
    /\ \E k \in DOMAIN ops :
          /\ ops[k].kind = "update"
          /\ ops[k].sql = activeTab(view.tabs, view.activeTabId).sql
    /\ CanEdit[Chars(activeTab(view.tabs, view.activeTabId).sql)]

\* the Identifier Quoting Rule as claimed
QuotedByRule(name) ==
    IF \/ \E i \in DOMAIN name : name[i] \in Range(UpperLetters)
       \/ \E i \in DOMAIN name :
             name[i] \notin Range(LowerLetters) \cup Digits \cup {"_"}
       \/ (Len(name) > 0 /\ name[1] \in Digits)
       \/ \E w \in ReservedWords :
             w = ToStr([i \in DOMAIN name |-> toLowerCase(name[i])])
    THEN "\"" \o ToStr(name) \o "\"" ELSE ToStr(name)

\* the rule's spelling of each known text
RuleSpelling == [cs \in KnownTexts |-> QuotedByRule(cs)]

\* the claimed spellings of the example names
QuotedExamples ==
    [n \in Range(QuoteTables) |->
        CASE n = "orders" -> "orders"
          [] n = "user_id" -> "user_id"
          [] n = "_temp" -> "_temp"
          [] n = "User" -> "\"User\""
          [] n = "select" -> "\"select\""
          [] n = "2fa" -> "\"2fa\""
          [] n = "order by" -> "\"order by\""]

\* C18: the statement handleSelectTable writes for a table spells schema and
\* table by the Identifier Quoting Rule: double-quoted exactly when the name
\* has an uppercase letter, a character outside [a-z0-9_], a leading digit
\* or is a reserved word in any case; orders, user_id, _temp stay as they
\* are, User, select, 2fa, order by are quoted.
C18_QuotingRule ==
    [][(Len(ops') = Len(ops) + 1 /\ ops'[Len(ops')].kind = "select") =>
        LET call == ops'[Len(ops')]
        IN /\ call.sql = "SELECT * FROM " \o RuleSpelling[Chars(call.schema)]
                            \o "." \o RuleSpelling[Chars(call.table)]
                            \o " LIMIT 100;"
           /\ call.sql = "SELECT * FROM public." \o QuotedExamples[call.table]
                            \o " LIMIT 100;"]_vars

\* the tab holds the statement of the table named select
C18_ReservedWordQuoted ==
    /\ activeTab(tabs, activeTabId).sql = "SELECT * FROM public.\"select\" LIMIT 100;"
    /\ activeTab(tabs, activeTabId).selectedTable = "public.select"

\* C19: once the session is loaded, a change of the tab list, activeTabId,
\* the active connection id or the active saved identity cancels the pending
\* write and schedules a new one, so the timer that fires is the one of the
\* most recent change: save_session is issued only when nothing has changed
\* since the timer was set, one second before.
C19_SaveOnlyAfterQuiescence ==
    [][autoSave => saveDeps(CurrentView) = saveDeps(view)]_vars

\* C20: the save_session that ends a burst of changes carries the tab list,
\* activeTabId and connection identities as they are after the last change:
\* a write never stores a state older than the current one.
C20_SaveCarriesLatestState ==
    [][autoSave =>
        session' = persistSession(tabs, activeTabId, activeConnectionId,
                                  activeSavedConnectionId)]_vars

\* C21: connect(savedId) on a node that has a live handle returns that
\* handle, issues no gateway call and leaves the nodes as they are; and
\* toggleConnection on such a node flips isOpen and nothing else: no call
\* is issued, no handle is handed out, liveConnectionId and schemas stay.
ConnectReturnsHandle ==
    \A i \in DOMAIN connections :
        (connections[i].liveConnectionId # Null
         /\ findIndex(connections, connections[i].id) = i)
        => /\ connect(connections, connections[i].id).returns
                 = connections[i].liveConnectionId
           /\ connect(connections, connections[i].id).calls = <<>>
           /\ connect(connections, connections[i].id).connections = connections

C21_ConnectIdempotent ==
    [][/\ ConnectReturnsHandle
       /\ ConnectReturnsHandle'
       /\ \A id \in SavedIds :
             (/\ findIndex(connections, id) # 0
              /\ connections[findIndex(connections, id)].liveConnectionId # Null
              /\ toggleConnection(id))
             => /\ connOps' = connOps
                /\ nextHandle' = nextHandle
                /\ globalConnectionId' = globalConnectionId
                /\ DOMAIN connections' = DOMAIN connections
                /\ \A i \in DOMAIN connections :
                      connections'[i] =
                        IF i = findIndex(connections, id)
                        THEN [connections[i] EXCEPT !.isOpen = ~connections[i].isOpen]
                        ELSE connections[i]]_vars

\* a node that holds a live handle was closed by toggleConnection
C21_ConnectedNodeToggled ==
    \E i \in DOMAIN connections :
        connections[i].liveConnectionId # Null /\ ~connections[i].isOpen

\* C22: when connect_db or get_schemas rejects inside connect(savedId), the
\* node of savedId is left with isLoading = FALSE, isOpen = FALSE, no live
\* handle and no schemas, and the global connection id is unchanged.
C22_FailedConnectLeavesNoHandle ==
    [][\A k \in DOMAIN connOps :
          connectRejected(k)
          => LET node == connections'[findIndex(connections', connOps[k].savedId)]
             IN /\ ~node.isLoading
                /\ ~node.isOpen
                /\ node.liveConnectionId = Null
                /\ node.schemas = NoList
                /\ globalConnectionId' = globalConnectionId]_vars

\* C23: a resolved load_connections merges by identity: every saved id of
\* the answer has a node afterwards; when the id had a node before, the node
\* keeps isOpen, liveConnectionId, schemas and isLoading; when the id is new,
\* its node is closed, without handle and without schemas; a rejected
\* load_connections leaves the registry as it is.
NodeOf(conns, id) == conns[findIndex(conns, id)]

C23_LoadMergesByIdentity ==
    [][\A k \in DOMAIN connOps :
          /\ loadConnectionsStoreResolved(k)
             => \A i \in DOMAIN savedConnections :
                   LET id == savedConnections[i]
                   IN /\ findIndex(connections', id) # 0
                      /\ NodeOf(connections', id) =
                            IF findIndex(connections, id) # 0
                            THEN NodeOf(connections, id)
                            ELSE [id |-> id, isOpen |-> FALSE,
                                  liveConnectionId |-> Null,
                                  schemas |-> NoList, isLoading |-> FALSE]
          /\ loadConnectionsStoreRejected(k) => connections' = connections]_vars

\* load_connections was answered again after s1 was deleted, while the
\* connect of s2, which began when s2 was the second node, was awaited:
\* the node of s2 is the only one and is still open and loading
C23_ReloadedWhileConnecting ==
    /\ Len(connections) = 1
    /\ connections[1].id = "s2"
    /\ connections[1].isOpen
    /\ connections[1].isLoading
    /\ \E k \in DOMAIN connOps :
          connOps[k].kind = "connect" /\ connOps[k].nodeIndex = 2

\* C24: when update_cell rejects, the error dialog carries the generated
\* UPDATE statement and the edit dialog stays as it was; when the DELETE
\* rejects, the error dialog carries the DELETE statement and the
\* confirmation stays open; and a step that closes the edit dialog or the
\* confirmation, other than the user's own closing of it, follows a gateway
\* call of the operation that succeeded.
C24_DialogsClosedOnlyAfterSuccess ==
    [][/\ \A k \in DOMAIN ops :
             updateCellRejected(k) =>
                 /\ errorModal' = [isOpen |-> TRUE, error |-> ErrorText,
                                   sql |-> ops[k].generatedSql]
                 /\ modalData' = modalData
       /\ \A k \in DOMAIN ops :
             deleteRejected(k) =>
                 /\ errorModal' = [isOpen |-> TRUE, error |-> ErrorText,
                                   sql |-> ops[k].deleteConfirm.sql]
                 /\ deleteConfirm' = deleteConfirm
       /\ (modalData # NoModal /\ modalData' = NoModal /\ ~closeModal) =>
             \E k \in DOMAIN ops :
                 /\ ops[k].kind = "update" \/ ops[k].awaited
                 /\ ~updateCellRejected(k)
       /\ (deleteConfirm.isOpen /\ ~deleteConfirm'.isOpen /\ ~closeDeleteConfirm) =>
             \E k \in DOMAIN ops : deleteResolved(k)
      ]_vars

\* the connect_db calls of the connect loop that have not settled
reconInFlight ==
    Len(recon.log.attempted) - Cardinality(DOMAIN recon.savedToLiveMap)
        - Len(recon.log.failed)

\* the distinct saved ids of a snapshot
DistinctSavedIds(s) ==
    ({s.last_saved_connection_id}
        \cup {s.tabs[i].saved_connection_id : i \in DOMAIN s.tabs}) \ {Null}

\* C25: the connect loop of reconciliation has at most one connect_db call
\* in flight, calls connect_db at most once per saved id, leaves a failed id
\* without a map entry, and once it is over the store is marked loaded, every
\* distinct saved id of the snapshot that the identity list knows has been
\* attempted, and the map holds exactly the attempted ids that did not fail.
C25_ReconcilesOneByOne ==
    recon.pc \in {"connect_db", "done"} =>
        /\ reconInFlight = (IF recon.pc = "connect_db" THEN 1 ELSE 0)
        /\ \A i, j \in DOMAIN recon.log.attempted :
              recon.log.attempted[i] = recon.log.attempted[j] => i = j
        /\ Range(recon.log.failed) \cap DOMAIN recon.savedToLiveMap = {}
        /\ Range(recon.log.attempted) \subseteq DistinctSavedIds(recon.session)
        /\ recon.pc = "done" =>
              /\ isSessionLoaded
              /\ Range(recon.log.attempted)
                    = DistinctSavedIds(recon.session) \cap Range(savedConnections)
              /\ DOMAIN recon.savedToLiveMap
                    = Range(recon.log.attempted) \ Range(recon.log.failed)

\* reconciliation is over, the first connect_db failed and a later one
\* resolved
C25_ResolvedAfterFailure ==
    /\ recon.pc = "done"
    /\ isSessionLoaded
    /\ Len(recon.log.attempted) = 2
    /\ recon.log.failed = <<recon.log.attempted[1]>>
    /\ DOMAIN recon.savedToLiveMap = {recon.log.attempted[2]}

\* C26: the step that ends reconciliation rebuilds every persisted tab that
\* has no saved_connection_id, with connectionId = the handle resolved for
\* last_saved_connection_id when that identity resolved, whatever
\* connection_id the tab stored, and with connectionId null otherwise.
C26_LegacyTabFallsBack ==
    [][(recon.pc # "done" /\ recon'.pc = "done") =>
          LET s == recon'.session
              map == recon'.savedToLiveMap
          IN \A i \in DOMAIN s.tabs :
                s.tabs[i].saved_connection_id = Null =>
                   /\ Len(tabs') = Len(s.tabs)
                   /\ tabs'[i].id = s.tabs[i].id
                   /\ tabs'[i].connectionId =
                        IF s.last_saved_connection_id # Null
                           /\ s.last_saved_connection_id \in DOMAIN map
                        THEN map[s.last_saved_connection_id]
                        ELSE Null
      ]_vars

\* C27: the step that ends reconciliation of a snapshot with a non-empty tabs
\* array sets activeTabId to the snapshot's active_tab_id when a rebuilt tab
\* has that id, and to the id of the first rebuilt tab otherwise.
C27_ActiveTabRestored ==
    [][(recon.pc # "done" /\ recon'.pc = "done"
          /\ Len(recon'.session.tabs) > 0) =>
          activeTabId' =
             IF \E i \in DOMAIN tabs' : tabs'[i].id = recon'.session.active_tab_id
             THEN recon'.session.active_tab_id
             ELSE tabs'[1].id
      ]_vars

\* reconciliation has just rebuilt two tabs from a snapshot whose
\* active_tab_id names neither, and the first is active
C27_FirstTabActive ==
    /\ recon.pc = "done"
    /\ Len(recon.session.tabs) = 2
    /\ recon.session.active_tab_id # Null
    /\ recon.session.active_tab_id \notin TabIds(recon.session.tabs)
    /\ tabs = restoredTabs(recon.session, recon.savedToLiveMap)
    /\ activeTabId = recon.session.tabs[1].id

\* the persisted tab whose saved identity the global connection falls back
\* on: the one active_tab_id names, or the first
fallbackTab(s) ==
    IF \E i \in DOMAIN s.tabs : s.tabs[i].id = s.active_tab_id
    THEN s.tabs[CHOOSE i \in DOMAIN s.tabs :
                   /\ s.tabs[i].id = s.active_tab_id
                   /\ \A j \in 1..(i - 1) : s.tabs[j].id # s.active_tab_id]
    ELSE s.tabs[1]

\* C28: the step that ends reconciliation sets the workspace's
\* activeConnectionId and the registry's activeConnectionId to the handle
\* resolved for last_saved_connection_id when that identity resolved;
\* otherwise to the handle resolved for the saved identity of the snapshot's
\* active tab, or of its first tab; and leaves both unchanged when neither
\* resolved.
C28_GlobalConnectionRestored ==
    [][(recon.pc # "done" /\ recon'.pc = "done") =>
          LET s == recon'.session
              map == recon'.savedToLiveMap
          IN IF s.last_saved_connection_id # Null
                /\ s.last_saved_connection_id \in DOMAIN map
             THEN /\ activeConnectionId' = map[s.last_saved_connection_id]
                  /\ globalConnectionId' = map[s.last_saved_connection_id]
             ELSE IF /\ s.tabs # <<>>
                     /\ fallbackTab(s).saved_connection_id # Null
                     /\ fallbackTab(s).saved_connection_id \in DOMAIN map
             THEN /\ activeConnectionId' = map[fallbackTab(s).saved_connection_id]
                  /\ globalConnectionId' = map[fallbackTab(s).saved_connection_id]
             ELSE UNCHANGED <<activeConnectionId, globalConnectionId>>
      ]_vars

\* reconciliation is over, last_saved_connection_id failed to connect and the
\* global connection is the handle of the active tab's saved identity
C28_ActiveTabHandleGlobal ==
    /\ recon.pc = "done"
    /\ recon.session.last_saved_connection_id # Null
    /\ recon.log.failed = <<recon.session.last_saved_connection_id>>
    /\ fallbackTab(recon.session).saved_connection_id \in DOMAIN recon.savedToLiveMap
    /\ activeConnectionId
          = recon.savedToLiveMap[fallbackTab(recon.session).saved_connection_id]
    /\ globalConnectionId = activeConnectionId

\* C29: a runQuery of a tab whose sql is blank, or whose connectionId is not
\* a handle of a connection that is open, issues no gateway call and leaves
\* the tabs (results, error, selectedTable, columnDefs, isLoading, title) as
\* they are.
C29_RunWithoutConnectionNoOp ==
    [][LET current == activeTab(view.tabs, view.activeTabId)
       IN (/\ runQuery
           /\ \/ Blank[Chars(current.sql)]
              \/ current.connectionId \notin IssuedHandles)
             => UNCHANGED <<tabs, ops>>
      ]_vars

\* C30: the step in which run_query of a run rejects leaves the run's tab
\* with error = the stringified failure, results null, selectedTable null,
\* columnDefs empty and isLoading false, opens the error dialog with exactly
\* the sql that was executed, and ends the run without a get_columns call.
C30_RejectedRunLeavesErroredTab ==
    [][\A k \in DOMAIN ops :
          runQueryRejected(k) =>
             LET t == activeTab(tabs', ops[k].tabId)
             IN /\ t.id = ops[k].tabId
                /\ t.error = ErrorText
                /\ t.results = NoResults
                /\ t.selectedTable = Null
                /\ t.columnDefs = <<>>
                /\ ~t.isLoading
                /\ errorModal' = [isOpen |-> TRUE, error |-> ErrorText,
                                  sql |-> ops[k].sql]
                /\ ops' = RemoveAt(ops, k)
      ]_vars

\* the titles an inference of runQuery can have set: the bare table names
InferredTitles == {Inferred[cs].table : cs \in DOMAIN Inferred} \ {""}

\* C31: the step that ends a successful run which extracted a table name
\* sets the tab's title to the bare table name when the title was the
\* generic default or a title set by an earlier inference, and leaves the
\* title as it was otherwise; a successful run that extracted no table
\* leaves the title as it was.
C31_TitleFollowsInference ==
    [][\A k \in DOMAIN ops :
          LET before == activeTab(tabs, ops[k].tabId).title
              after == activeTab(tabs', ops[k].tabId).title
          IN /\ (\/ \E cols \in ColumnAnswers : runColumnsResolved(k, cols)
                 \/ runColumnsRejected(k))
                => after = IF before = GenericTitle \/ before \in InferredTitles
                           THEN ops[k].table ELSE before
             /\ (runQueryResolved(k) /\ Inferred[Chars(ops[k].sql)].table = "")
                => after = before
      ]_vars

\* C32: the step that ends a handleSelectTable whose get_columns and
\* run_query both resolved writes the column definitions and the results to
\* the tab together; the step that ends one of which either call rejected
\* leaves the tab with an error, isLoading false, results null and columnDefs
\* empty; neither leaves the tab with results and no column definitions or
\* with column definitions and no results.
C32_SelectTableAllOrNothing ==
    [][\A k \in DOMAIN ops :
          LET t == activeTab(tabs', ops[k].tabId)
          IN /\ selectQueryResolved(k) =>
                   /\ t.columnDefs = ops[k].cols
                   /\ t.results = QueryResult(ops[k].sql)
                   /\ ~t.isLoading
                   /\ t.columnDefs # <<>>
             /\ selectRejected(k) =>
                   /\ t.error # Null
                   /\ ~t.isLoading
                   /\ t.results = NoResults
                   /\ t.columnDefs = <<>>
      ]_vars

\* A tab of the tab bar is clicked; an open dialog lies over the tab bar
switchTab(id) ==
    /\ ~dialogShown
    /\ ~view.deleteConfirm.isOpen
    /\ ~view.errorModal.isOpen
    /\ selectTab(id)

\* Two restored tabs on two connections: the cell dialog, the confirmed
\* deletion and runQuery while the user moves between the tabs.
InitSwitch ==
    /\ InitRun
    /\ session.tabs[1].title = GenericTitle

NextSwitch ==
    \/ render \/ Reconcile \/ DialogSteps
    \/ LET data == activeTab(view.tabs, view.activeTabId).results
       IN /\ modalData = NoModal
          /\ \E i \in DOMAIN data.rows : handleDeleteRow(data.rows[i])
    \/ executeDelete
    \/ \E k \in DOMAIN ops : deleteResolved(k)
    \/ closeDeleteConfirm
    \/ ops = <<>> /\ modalData = NoModal /\ runQuery
    \/ \E k \in DOMAIN ops : runQueryResolved(k)
    \/ \E k \in DOMAIN ops : \E cols \in ColumnAnswers : runColumnsResolved(k, cols)
    \/ \E id \in TabIds(view.tabs) : switchTab(id)

SpecSwitch == InitSwitch /\ [][NextSwitch]_vars

\* the step continues or ends the k-th call in flight
Acted(k) ==
    /\ ops' # ops
    /\ \/ ops' = RemoveAt(ops, k)
       \/ /\ Len(ops') = Len(ops)
          /\ \A j \in DOMAIN ops : j # k => ops'[j] = ops[j]

\* C33: a call issued for a tab carries the handle and the statement of the
\* rendered active tab; every step that continues or ends a call in flight
\* leaves all other tabs as they were, and a call that follows it (the
\* run_query after update_cell or DELETE, the get_columns after run_query)
\* keeps the tab, the handle and the statement of the call it follows.
C33_CallsStayOnTheirTab ==
    [][/\ Len(ops') > Len(ops) =>
             LET c == ops'[Len(ops')]
                 current == activeTab(view.tabs, view.activeTabId)
             IN /\ c.tabId = view.activeTabId
                /\ c.conn = current.connectionId
                /\ c.sql = current.sql
       /\ \A k \in DOMAIN ops :
             Acted(k) =>
                /\ Len(tabs') = Len(tabs)
                /\ \A i \in DOMAIN tabs :
                      tabs[i].id # ops[k].tabId => tabs'[i] = tabs[i]
                /\ Len(ops') = Len(ops) =>
                      /\ ops'[k].tabId = ops[k].tabId
                      /\ ops'[k].conn = ops[k].conn
                      /\ ops'[k].sql = ops[k].sql
      ]_vars

\* C34: from the step that ends loadSession on, a step takes a tab out of
\* the tab list only if it is closeTab(x) of a rendered tab x, and then x is
\* the one tab it takes out; so a tab appended by addTab stays through the
\* closeTab of another tab.
C34_OnlyCloseTabRemoves ==
    [][recon.pc = "done" =>
          \/ TabIds(tabs) \subseteq TabIds(tabs')
          \/ \E x \in TabIds(view.tabs) :
                /\ closeTab(x)
                /\ TabIds(tabs) \ TabIds(tabs') = {x}
      ]_vars

\* the schema a get_tables call was issued for, in the nodes conns
SchemaOf(conns, call) ==
    NodeOf(conns, call.savedId).schemas[1][call.schemaIndex]

\* C35: toggleSchema of a closed schema without tables on a node with a
\* live handle adds one get_tables call and changes no node; the step that
\* ends a resolved get_tables leaves the schema it was issued for open with
\* the tables, as long as its node is still listed with schemas; the step
\* that ends a rejected one changes no node; toggleSchema of a schema with
\* tables adds no call, flips isOpen and keeps the tables.
C35_TablesFetchedOnce ==
    [][/\ \A id \in SavedIds : \A i \in DOMAIN CatalogSchemas :
             toggleSchema(id, i) =>
                LET s == NodeOf(connections, id).schemas[1][i]
                    live == NodeOf(connections, id).liveConnectionId
                IN /\ (~s.isOpen /\ s.tables = NoList /\ live # Null) =>
                         /\ Len(connOps') = Len(connOps) + 1
                         /\ connOps'[Len(connOps')].pc = "get_tables"
                         /\ connOps'[Len(connOps')].savedId = id
                         /\ connections' = connections
                   /\ s.tables # NoList =>
                         /\ connOps' = connOps
                         /\ NodeOf(connections', id).schemas[1][i] =
                               [s EXCEPT !.isOpen = ~s.isOpen]
       /\ \A k \in DOMAIN connOps :
             /\ (/\ getTablesResolved(k)
                 /\ findIndex(connections', connOps[k].savedId) # 0
                 /\ NodeOf(connections', connOps[k].savedId).schemas # NoList)
                => /\ SchemaOf(connections', connOps[k]).isOpen
                   /\ SchemaOf(connections', connOps[k]).tables = List(CatalogTables)
             /\ getTablesRejected(k) => connections' = connections
      ]_vars

\* what a tab holds only while the process runs
TransientFields ==
    {"results", "error", "isLoading", "selectedTable", "columnDefs"}

\* C36: the snapshot an auto-save hands to save_session holds, per tab, none
\* of the transient fields, and neither a tab of it nor its
\* last_connection_id holds a live handle of the running process.
C36_PayloadDurableOnly ==
    [][autoSave =>
          /\ \A i \in DOMAIN session'.tabs :
                /\ DOMAIN session'.tabs[i] \cap TransientFields = {}
                /\ \A f \in DOMAIN session'.tabs[i] :
                      session'.tabs[i][f] \notin IssuedHandles
          /\ session'.last_connection_id \notin IssuedHandles
      ]_vars

\* C37: every step that continues or ends a connect(savedId) in flight
\* leaves the number of nodes and every node of another identity as they
\* were.
C37_ConnectMutatesOwnNode ==
    [][\A k \in DOMAIN connOps :
          (connectResolved(k) \/ getSchemasResolved(k) \/ connectRejected(k)) =>
             /\ Len(connections') = Len(connections)
             /\ \A i \in DOMAIN connections :
                   connections[i].id # connOps[k].savedId =>
                      connections'[i] = connections[i]
      ]_vars

\* the DELETE of a table whose WHERE has no condition
unconditionalDelete(selectedTable) ==
    "DELETE FROM \"" \o Parts[Chars(selectedTable)][1] \o "\".\""
        \o Parts[Chars(selectedTable)][2] \o "\" WHERE "
        \o join(<<>>, " AND ") \o ";"

\* C38: every update_cell call carries at least one row identifier; every
\* DELETE put up for confirmation has at least one condition in its WHERE
\* clause, built from a key column the result holds; and the DELETE sent is
\* the one that was confirmed.
C38_RowAlwaysIdentified ==
    [][LET currentTab == activeTab(view.tabs, view.activeTabId)
       IN /\ (Len(ops') = Len(ops) + 1 /\ ops'[Len(ops')].kind = "update")
                => ops'[Len(ops')].rowIdentifiers # <<>>
          /\ (deleteConfirm'.isOpen /\ deleteConfirm' # deleteConfirm)
                => /\ deleteConfirm'.sql # unconditionalDelete(currentTab.selectedTable)
                   /\ \E i \in DOMAIN currentTab.columnDefs :
                         /\ currentTab.columnDefs[i].is_pk
                               \/ currentTab.columnDefs[i].is_unique
                         /\ indexOf(currentTab.results.columns,
                                    currentTab.columnDefs[i].name) # 0
          /\ (Len(ops') = Len(ops) + 1 /\ ops'[Len(ops')].kind = "delete")
                => ops'[Len(ops')].deleteConfirm.sql = view.deleteConfirm.sql
      ]_vars

\* The columns of the WHERE clause of generatePreviewSql with the value each
\* is compared with, Null for IS NULL: originalRow.map(...) with null for a
\* column that is not a key while there are keys, then filter(c !== null)
previewConditions(originalRow, columns, columnDefs) ==
    LET pks == {columnDefs[i].name :
                   i \in {d \in DOMAIN columnDefs : columnDefs[d].is_pk}}
        uqs == {columnDefs[i].name :
                   i \in {d \in DOMAIN columnDefs : columnDefs[d].is_unique}}
        names == IF pks = {} THEN uqs ELSE pks
        hasPks == names # {}
        mapped == [idx \in DOMAIN originalRow |->
                     IF hasPks /\ columns[idx] \notin names THEN <<>>
                     ELSE IF originalRow[idx].type = "null"
                     THEN <<columns[idx], Null>>
                     ELSE <<columns[idx], Spelled[originalRow[idx].chars]>>]
    IN SelectSeq(mapped, LAMBDA c : c # <<>>)

\* one condition of the previewed WHERE clause
previewCondition(c) ==
    IF c[2] = Null THEN "\"" \o c[1] \o "\" IS NULL"
    ELSE "\"" \o c[1] \o "\" = '" \o Escaped[Chars(c[2])] \o "'"

\* C39: for the row, the columns and the column definitions of every cell
\* update sent, the conditions of the statement generatePreviewSql shows are
\* on the columns named by the rowIdentifiers passed to update_cell, in the
\* same order, each with the same original value or null.
C39_PreviewMatchesUpdate ==
    [][LET currentTab == activeTab(view.tabs, view.activeTabId)
           data == currentTab.results
       IN \A i \in DOMAIN data.rows : \A c \in DOMAIN data.columns :
             \A newValue \in NewValues :
                (/\ handleUpdateCell(data.columns[c], newValue, data.rows[i],
                                     data.columns)
                 /\ Len(ops') = Len(ops) + 1)
                => LET sent == ops'[Len(ops')].rowIdentifiers
                       where == previewConditions(data.rows[i], data.columns,
                                                  currentTab.columnDefs)
                   IN /\ [n \in DOMAIN sent |-> <<sent[n][1], sent[n][2]>>] = where
                      /\ generatePreviewSql(currentTab.selectedTable,
                                            data.columns[c], newValue,
                                            data.rows[i], data.columns,
                                            currentTab.columnDefs)
                            = "UPDATE \"" \o ops'[Len(ops')].schema \o "\".\""
                                 \o ops'[Len(ops')].table
                                 \o "\" SET \"" \o data.columns[c] \o "\" = "
                                 \o (IF newValue = Null THEN "NULL"
                                     ELSE "'" \o Escaped[newValue] \o "'")
                                 \o " WHERE "
                                 \o join([n \in DOMAIN where |->
                                            previewCondition(where[n])],
                                         " AND ")
      ]_vars

\* an update_cell in flight for a row of a result with two columns that is
\* identified by its primary key alone, whose value is null, with the
\* previewed statement comparing that column with IS NULL
C39_UpdateByKeyInFlight ==
    \E k \in DOMAIN ops :
        /\ ops[k].kind = "update"
        /\ ops[k].rowIdentifiers = <<<<"id", Null, "int4">>>>
        /\ ops[k].generatedSql =
              "UPDATE \"public\".\"users\" SET \"email\" = NULL WHERE \"id\" IS NULL"

====
